---- MODULE Spec2Model ----
(***************************************************************************)
(* Verification model of the event-driven control plane of                 *)
(* heavy-telegram-bot: the event router (route table, middleware registry, *)
(* dispatch), the fixed-window rate limiter, the worker's raw-event path,  *)
(* the gateway's consumer loop with its middlewares, the gateway's audio   *)
(* ready handler with its interest lock, dependency injection,             *)
(* authentication and the worker's content-addressed staging bucket.       *)
(*                                                                         *)
(* The module holds several specifications over disjoint groups of         *)
(* variables; each specification leaves the other groups unchanged.        *)
(*   Spec         event router: registration and dispatch                  *)
(*   LimiterSpec  fixed-window rate limiter over the cache and the clock    *)
(*   ReadySpec    concurrent runs of the gateway's audio ready handler      *)
(*   VideoSpec    concurrent runs of the gateway's video ready handler      *)
(*   BusSpec      ingress, worker consumer and gateway consumer on the bus  *)
(*   FeedSpec     the gateway consumer fed with events of every type        *)
(*   IntakeSpec   both consumers fed with deliveries of every kind           *)
(*   InjectSpec   register and call_with_injected_deps                       *)
(*   AuthSpec     graced chats and Authenticator.is_allowed                  *)
(*   KeySpec      download commands, object keys and the staging bucket      *)
(*   EnvelopeSpec EventEnvelope: to_json, from_dict and create               *)
(*   FlowSpec     the bus driven by one audio or one video download command *)
(*   CleanupSpec  reply persistence and optimistic_reply_cleanup            *)
(*   ReplicaSpec  two worker replicas admitting commands of one user        *)
(***************************************************************************)
EXTENDS Integers, Sequences, FiniteSets, TLC

VARIABLES
    \* ---- event router (src/media-pirate/src/core/event_router.py) ----
    routes,              \* type -> version -> handler (NoHandler when absent)
    route_options,       \* type -> version -> RouteOption (NoOptions when absent)
    middlewares,         \* name -> middleware function (NoFunc when absent)
    middlewares_before,  \* global before list, in registration order
    middlewares_after,   \* global after list, in registration order
    pending,             \* decorators returned by register_*_middleware, not yet applied
    regHistory,          \* history: (type, version) -> what route() last registered there,
                         \*   and whether it was called for the pair never, once or more (n)
    regCount,            \* number of registration calls made so far
    lastOp,              \* the operation that produced this state
    env,                 \* the envelope of the last dispatch
    executed,            \* calls made by the last dispatch, in order: <<phase, name>>
    err,                 \* exception raised by the last operation ("none" when it returned)
    errName,             \* name attribute of that exception
    \* ---- clock and cache keys rate_limit:{user_id}:{window_start} ----
    now,                 \* time(), in seconds
    rate_limit,          \* user -> window_start -> [val, exp]; val = 0: the key is absent
    calls,               \* history: user -> increment calls made in the current window
    wasDenied,           \* history: user -> is_allowed has returned false for the user
    lobs,                \* the last rate limiter call: [op, user, result]
    \* ---- message bus, cache keys and consumers ----
    telegram_events,     \* queue consumed by the worker
    gateway_events,      \* queue consumed by the gateway
    nextCid,             \* the next correlation id uuid4() mints
    wslot,               \* correlation slot of the worker's consumer task
    gslot,               \* correlation slot of the gateway's consumer task
    workerAlive,         \* the worker's consumer loop is running
    gwAlive,             \* the gateway's consumer loop is running
    start_time,          \* correlation ids whose key correlation_id:{id} has start_time
    optimistic_reply,    \* correlation ids whose key optimistic_reply:{id} is recorded
    graced,              \* chats whose key graced_chat:{chat} exists
    bucket,              \* object keys present in the object store
    cleanup_event_counter, \* value of the key cleanup_event_counter (0: absent)
    audio_content,       \* object -> cached content id (0: the key is absent)
    ongoing_audio_content, \* object -> holder of the interest lock (0: absent)
    video_content,       \* object -> field of the hash video_content (0: absent)
    published,           \* history: every envelope published, with its queue
    passed,              \* history: events that went through cleanup_counter_increment
    cleanups,            \* history: downloads-cleanup commands published
    counterExpired,      \* history: the counter key has run out of its TTL
    lastW,               \* outcome of the worker's last step
    lastG,               \* outcome of the gateway's last step
    \* ---- runs of the audio ready handler ----
    inv,                 \* run -> [pc, obj, cid, cached, acq, fid, stored, flag, result]
    overlapped,          \* history: pairs of runs that were in progress together
    \* ---- single calls of a function, with what they returned ----
    registry,            \* EventRouter.registry: type -> instance (NoInstance: absent)
    injObs,              \* the last call_with_injected_deps
    authObs,             \* the last Authenticator.is_allowed
    keyObs,              \* the last two object keys computed by download commands
    envObs,              \* the last envelope sent over the wire or parsed from it
    created,             \* EventEnvelope.create: the ids drawn and the envelopes made
    \* ---- the hash correlation_id:{id}:optimistic_reply, field by field ----
    reply_record,        \* correlation id -> [message_id, chat_id] as the cache holds them
    chat_log,            \* the messages present in the chats: <<chat_id, message_id>>
    cleanObs,            \* the last optimistic_reply_cleanup: its id and its deletions
    \* ---- worker replicas consuming telegram_events together ----
    replica,             \* replica -> where it is in the handling of a raw event
    admitted             \* history: user -> command events published in the window

routerVars == <<routes, route_options, middlewares, middlewares_before,
                middlewares_after, pending, regHistory, regCount, lastOp, env,
                executed, err, errName>>

limiterVars == <<now, rate_limit, calls, wasDenied, lobs>>

busVars == <<telegram_events, gateway_events, nextCid, wslot, gslot, workerAlive,
             gwAlive, start_time, optimistic_reply, graced, bucket,
             cleanup_event_counter, audio_content, ongoing_audio_content,
             video_content, published, passed, cleanups, counterExpired, lastW, lastG>>

readyVars == <<inv, overlapped>>

replyVars == <<reply_record, chat_log, cleanObs>>

replicaVars == <<replica, admitted>>

callVars == <<registry, injObs, authObs, keyObs, envObs, created, replyVars,
              replicaVars>>

vars == <<routerVars, limiterVars, busVars, readyVars, callVars>>

----------------------------------------------------------------------------
(* Bounds of the model *)

\* number of registration calls (route and middleware) explored
MaxRegs == 3

\* the clock advances in steps of ClockStep seconds, up to MaxClock
ClockStep == 20
MaxClock == 130

\* increment is explored until a counter is IncrOver above max_requests
IncrOver == 1

\* number of runs of the audio ready handler explored
MaxInv == 2

\* number of correlation ids minted on the bus
MaxMsgs == 2

\* number of events the fed gateway passes through its after-middlewares
MaxEvents == 101
\* envelopes published and events passed before the publishers stop
MaxIntake == 4
\* download commands handled one after the other
MaxCmds == 2
\* calls of EventEnvelope.create
MaxCreate == 2

----------------------------------------------------------------------------
(* Values shared by the specifications, and the state of each group of     *)
(* variables at construction                                                *)

\* event types, versions and middleware names the router is exercised with
Types == {"t1", "t2"}
Versions == {1, 2}
Names == {"a", "b"}

NoHandler == "NoHandler"
NoFunc == "NoFunc"
\* the entry route_options.get(type, {}).get(version) of an unregistered pair (None)
NoOptions == [set |-> FALSE, middleware_before |-> <<>>, middleware_after |-> <<>>]

\* FixedWindowRateLimiter.__init__ defaults
WindowSeconds == 60
MaxRequests == 5

Users == {"admin", "u1"}

\* int(time() // self.window) * self.window
WindowStart(t) == (t \div WindowSeconds) * WindowSeconds

WindowStarts == {WindowStart(t) : t \in 0..(MaxClock + ClockStep)}

\* a cache key that does not exist; exp = -1 is a key without a TTL
NoKey == [val |-> 0, exp |-> -1]

\* EventRouter.__init__
RouterInit ==
    /\ routes = [t \in Types |-> [v \in Versions |-> NoHandler]]
    /\ route_options = [t \in Types |-> [v \in Versions |-> NoOptions]]
    /\ middlewares = [n \in Names |-> NoFunc]
    /\ middlewares_before = <<>>
    /\ middlewares_after = <<>>
    /\ pending = {}
    /\ regHistory = [t \in Types |-> [v \in Versions |->
                        [handler |-> NoHandler, options |-> NoOptions, n |-> 0]]]
    /\ regCount = 0
    /\ lastOp = "init"
    /\ env = [type |-> "t1", version |-> 1]
    /\ executed = <<>>
    /\ err = "none"
    /\ errName = ""

\* an empty cache at time 0
CacheInit ==
    /\ now = 0
    /\ rate_limit = [u \in Users |-> [w \in WindowStarts |-> NoKey]]
    /\ calls = [u \in Users |-> 0]
    /\ wasDenied = [u \in Users |-> FALSE]
    /\ lobs = [op |-> "none", user |-> "", result |-> 0]

\* object names (sha256 of the base URL) and the runs of the ready handler
Objects == {"o1", "o2"}
Invocations == 1..MaxInv

\* in-process control flags a payload can carry
SnapshotFlag == "_correlation_snapshot"
CleanupFlag == "_cleaup_correlation_id_start_time"

\* an envelope on the bus: type, correlation_id and the payload fields the code
\* reads; parent is history: the correlation id of the envelope that was being
\* processed when this one was published (0: published by ingress)
Msg(type, cid, user, cmd, url, text, flags, parent) ==
    [type |-> type, cid |-> cid, user |-> user, cmd |-> cmd, url |-> url,
     text |-> text, flags |-> flags, max_delete |-> 0, parent |-> parent]

\* what a consumer's last step did: the envelope, how the step ended, the value
\* of _correlation_snapshot and the slot before the step
NoStep == [type |-> "", cid |-> 0, outcome |-> "none", snapshot |-> 0, prev |-> 0]

\* a run of the ready handler that has not begun
NoRun == [pc |-> "new", obj |-> "o1", cid |-> 0, cached |-> 0, acq |-> FALSE,
          fid |-> 0, stored |-> FALSE, flag |-> FALSE, result |-> "", ttl |-> 0]

\* both services started, queues empty, no video cached, no lock held
BusQuietBesidesAudio ==
    /\ telegram_events = <<>>
    /\ gateway_events = <<>>
    /\ nextCid = 1
    /\ wslot = 0
    /\ gslot = 0
    /\ workerAlive = TRUE
    /\ gwAlive = TRUE
    /\ optimistic_reply = {}
    /\ bucket = {}
    /\ ongoing_audio_content = [o \in Objects |-> 0]
    /\ video_content = [o \in Objects |-> 0]
    /\ published = <<>>
    /\ passed = 0
    /\ cleanups = 0
    /\ counterExpired = FALSE
    /\ lastW = NoStep
    /\ lastG = NoStep

\* and no audio cached
BusQuiet ==
    /\ BusQuietBesidesAudio
    /\ audio_content = [o \in Objects |-> 0]

\* and an empty cache
BusIdle ==
    /\ BusQuiet
    /\ start_time = {}
    /\ graced = {}
    /\ cleanup_event_counter = 0

\* correlation ids of optimistic replies
ReplyCids == {1, 2}

\* the worker processes that consume telegram_events
WorkerReplicas == {"w1", "w2"}

\* a replica between two deliveries
ReplicaIdle == [pc |-> "idle", user |-> ""]

\* None: what hmget answers for a field the hash does not have
None == [py |-> "NoneType"]

\* the hash does not exist
NoReplyRecord == [message_id |-> None, chat_id |-> None]

\* no call has been made, no dependency is registered
NoInstance == "NoInstance"
DepTypes == {"EventEnvelope", "ServiceContainer", "Client", "FixedWindowRateLimiter"}
CallIdle ==
    /\ registry = [t \in DepTypes |-> NoInstance]
    /\ injObs = [fn |-> "none"]
    /\ authObs = [fn |-> "none"]
    /\ keyObs = <<>>
    /\ envObs = [fn |-> "none"]
    \* the defaults of create are evaluated when the class is defined: one
    \* uuid4 has been drawn
    /\ created = [uuids |-> 1, made |-> <<>>]
    /\ reply_record = [c \in ReplyCids |-> NoReplyRecord]
    /\ chat_log = {}
    /\ cleanObs = [fn |-> "none", cid |-> 0, deleted |-> <<>>, turn |-> 0,
                   again |-> FALSE]
    /\ replica = [r \in WorkerReplicas |-> ReplicaIdle]
    /\ admitted = [u \in Users |-> 0]

\* no run of the ready handler has begun
ReadyIdle ==
    /\ inv = [i \in Invocations |-> NoRun]
    /\ overlapped = {}

----------------------------------------------------------------------------
(* Fixed-window rate limiter: src/media-pirate/src/core/rate_limiter.py *)

\* a key whose TTL has run out no longer exists
Live(k, t) == IF k.val > 0 /\ (k.exp = -1 \/ t < k.exp) THEN k ELSE NoKey

\* redis.get(rate_limit:{user}:{window_start}); 0 stands for None
RedisGet(rl, t, u) == Live(rl[u][WindowStart(t)], t).val

\* mutant of is_allowed: the comparison admits a counter equal to max_requests
is_allowed_Le(rl, t, u) == RedisGet(rl, t, u) <= MaxRequests

\* FixedWindowRateLimiter.is_allowed
is_allowed(rl, t, u) == RedisGet(rl, t, u) < MaxRequests

\* mutant of Incremented: the key is raised by two
Incremented_ByTwo(rl, t, u) ==
    LET k == Live(rl[u][WindowStart(t)], t)
    IN [rl EXCEPT ![u][WindowStart(t)] =
            IF k.val = 0 THEN [val |-> 2, exp |-> t + WindowSeconds]
                         ELSE [val |-> k.val + 2, exp |-> k.exp]]

\* redis.incr(key) followed by redis.expire(key, window) when it returned 1
Incremented(rl, t, u) ==
    LET k == Live(rl[u][WindowStart(t)], t)
        n == k.val + 1
    IN [rl EXCEPT ![u][WindowStart(t)] =
            IF n = 1 THEN [val |-> 1, exp |-> t + WindowSeconds]
                     ELSE [val |-> n, exp |-> k.exp]]

\* the keys left at time t: expired keys are gone
Expired(rl, t) == [u \in Users |-> [w \in WindowStarts |-> Live(rl[u][w], t)]]

LimiterInit ==
    /\ CacheInit
    /\ RouterInit
    /\ BusIdle
    /\ ReadyIdle
    /\ CallIdle

\* await rate_limiter.is_allowed(user_id)
IsAllowed(u) ==
    /\ lobs' = [op |-> "is_allowed", user |-> u,
                result |-> IF is_allowed(rate_limit, now, u) THEN 1 ELSE 0]
    /\ wasDenied' = [wasDenied EXCEPT ![u] = @ \/ ~is_allowed(rate_limit, now, u)]
    /\ UNCHANGED <<now, rate_limit, calls>>

\* await rate_limiter.increment(user_id)
Increment(u) ==
    /\ RedisGet(rate_limit, now, u) < MaxRequests + IncrOver
    /\ rate_limit' = Incremented(rate_limit, now, u)
    /\ calls' = [calls EXCEPT ![u] = @ + 1]
    /\ lobs' = [op |-> "increment", user |-> u, result |-> RedisGet(rate_limit', now, u)]
    /\ UNCHANGED <<now, wasDenied>>

\* time passes
Tick ==
    /\ now + ClockStep <= MaxClock
    /\ now' = now + ClockStep
    /\ rate_limit' = Expired(rate_limit, now')
    /\ calls' = IF WindowStart(now') = WindowStart(now) THEN calls
                 ELSE [u \in Users |-> 0]
    /\ lobs' = [op |-> "tick", user |-> "", result |-> 0]
    /\ UNCHANGED wasDenied

LimiterNext ==
    \/ \E u \in Users : IsAllowed(u) /\ UNCHANGED <<routerVars, busVars, readyVars, callVars>>
    \/ \E u \in Users : Increment(u) /\ UNCHANGED <<routerVars, busVars, readyVars, callVars>>
    \/ Tick /\ UNCHANGED <<routerVars, busVars, readyVars, callVars>>

LimiterSpec == LimiterInit /\ [][LimiterNext]_vars

\* C5: for a user whose counter was absent at the start of the window,
\* is_allowed returns true exactly while fewer than max_requests increment
\* calls have been made for the user in the window: it returns false once
\* max_requests increments have been made, and true again in the next window.
C5_FixedWindow ==
    /\ \A u \in Users : is_allowed(rate_limit, now, u) <=> calls[u] < MaxRequests
    /\ lobs.op = "is_allowed" => (lobs.result = 1 <=> calls[lobs.user] < MaxRequests)
    /\ lobs.op = "increment" => lobs.result = calls[lobs.user]

\* is_allowed returns true in a window after one in which max_requests
\* increments were made and it returned false, before any increment of the
\* new window
C5_Witness ==
    /\ lobs.op = "is_allowed"
    /\ lobs.result = 1
    /\ wasDenied[lobs.user]
    /\ calls[lobs.user] = 0
    /\ now >= WindowSeconds

----------------------------------------------------------------------------
(* Event router: src/media-pirate/src/core/event_router.py *)

\* handler functions; every one declares the parameter "envelope"
Handlers == {"h1", "h2"}

\* middleware functions: one returning a truthy value, one returning a falsy
\* value, one that does not declare the parameter "envelope"
MwFuncs == {"mw_true", "mw_false", "mw_noenv"}

\* options a route may be declared with (duplicates and names that may be
\* unregistered included): <<middleware_before, middleware_after>>
OptionChoices == {<< <<"b", "a", "b">>, <<"a">> >>,
                  << <<>>, <<"b", "b", "a">> >>}

RouteOption(before, after) ==
    [set |-> TRUE, middleware_before |-> before, middleware_after |-> after]

has_params(func) == func # "mw_noenv"

\* mutant of Dedup: the concatenation is used as it is
Dedup_Keep(s) == s

\* list(dict.fromkeys(s)): the first occurrence of each element, in order
Dedup(s) ==
    LET F[i \in 0..Len(s)] ==
            IF i = 0 THEN <<>>
            ELSE IF \E j \in 1..Len(F[i-1]) : F[i-1][j] = s[i]
                 THEN F[i-1]
                 ELSE Append(F[i-1], s[i])
    IN F[Len(s)]

\* what calling a middleware function returns
Truthy(func) == func = "mw_true"

\* EventRouter.get_route
get_route(rt, e) == rt[e.type][e.version]

\* mutant of RunList: a falsy result does not end the loop
RunList_IgnoreFalsy(names, mws, phase) ==
    LET F[i \in 0..Len(names)] ==
            IF i = 0 THEN [ran |-> <<>>, err |-> "none", name |-> ""]
            ELSE LET p == F[i-1]
                     n == names[i]
                 IN IF p.err # "none" THEN p
                    ELSE IF mws[n] = NoFunc
                         THEN [p EXCEPT !.err = "MiddlewareRegistrationError", !.name = n]
                    ELSE [p EXCEPT !.ran = Append(p.ran, <<phase, n>>)]
    IN F[Len(names)]

\* mutant of RunList: a name with no registered middleware is skipped
RunList_SkipUnresolved(names, mws, phase) ==
    LET F[i \in 0..Len(names)] ==
            IF i = 0 THEN [ran |-> <<>>, err |-> "none", name |-> ""]
            ELSE LET p == F[i-1]
                     n == names[i]
                 IN IF p.err # "none" THEN p
                    ELSE IF mws[n] = NoFunc THEN p
                    ELSE IF ~Truthy(mws[n])
                         THEN [ran |-> Append(p.ran, <<phase, n>>),
                               err |-> "MiddlewareExecutionError_" \o phase, name |-> n]
                    ELSE [p EXCEPT !.ran = Append(p.ran, <<phase, n>>)]
    IN F[Len(names)]

\* the loop over one effective middleware list: the calls made, and the
\* exception that ended it ("none" when every middleware returned truthy)
RunList(names, mws, phase) ==
    LET F[i \in 0..Len(names)] ==
            IF i = 0 THEN [ran |-> <<>>, err |-> "none", name |-> ""]
            ELSE LET p == F[i-1]
                     n == names[i]
                 IN IF p.err # "none" THEN p
                    ELSE IF mws[n] = NoFunc
                         THEN [p EXCEPT !.err = "MiddlewareRegistrationError", !.name = n]
                    ELSE IF ~Truthy(mws[n])
                         THEN [ran |-> Append(p.ran, <<phase, n>>),
                               err |-> "MiddlewareExecutionError_" \o phase, name |-> n]
                    ELSE [p EXCEPT !.ran = Append(p.ran, <<phase, n>>)]
    IN F[Len(names)]

UniqueMiddlewareBefore(mb, opt) ==
    Dedup(mb \o (IF ~opt.set THEN <<>> ELSE opt.middleware_before))

UniqueMiddlewareAfter(ma, opt) ==
    Dedup(ma \o (IF ~opt.set THEN <<>> ELSE opt.middleware_after))

\* mutant of DispatchResult: the route is looked up after the before list ran
DispatchResult_LateLookup(rt, ro, mws, mb, ma, e) ==
    LET handler == rt[e.type][e.version]
        before == RunList(UniqueMiddlewareBefore(mb, ro[e.type][e.version]), mws, "before")
        after == RunList(UniqueMiddlewareAfter(ma, ro[e.type][e.version]), mws, "after")
    IN IF before.err # "none" THEN before
       ELSE IF handler = NoHandler
       THEN [ran |-> before.ran, err |-> "RouteNotFoundError", name |-> ""]
       ELSE [ran |-> before.ran \o <<<<"handler", handler>>>> \o after.ran,
             err |-> after.err, name |-> after.name]

\* EventRouter.dispatch as a function of the router's state and the envelope
DispatchResult(rt, ro, mws, mb, ma, e) ==
    LET handler == rt[e.type][e.version]
        before == RunList(UniqueMiddlewareBefore(mb, ro[e.type][e.version]), mws, "before")
        after == RunList(UniqueMiddlewareAfter(ma, ro[e.type][e.version]), mws, "after")
    IN IF handler = NoHandler
       THEN [ran |-> <<>>, err |-> "RouteNotFoundError", name |-> ""]
       ELSE IF before.err # "none" THEN before
       ELSE [ran |-> before.ran \o <<<<"handler", handler>>>> \o after.ran,
             err |-> after.err, name |-> after.name]

Init ==
    /\ RouterInit
    /\ CacheInit
    /\ BusIdle
    /\ ReadyIdle
    /\ CallIdle

\* the observation variables hold what the last dispatch did; any other
\* operation clears them
ClearObserved ==
    /\ env' = [type |-> "t1", version |-> 1]
    /\ executed' = <<>>

\* mutant of RouteTable: the handler is stored under the type, whatever the version
RouteTable_AnyVersion(rt, t, v, func) == [rt EXCEPT ![t] = [w \in Versions |-> func]]

\* what route(type, version, options)(func) stores
RouteTable(rt, t, v, func) == [rt EXCEPT ![t][v] = func]
RouteOptionTable(ro, t, v, opt) == [ro EXCEPT ![t][v] = opt]

\* @router.route(event_type, version, options) applied to func
Route(t, v, before, after, func) ==
    /\ regCount < MaxRegs
    /\ routes' = RouteTable(routes, t, v, func)
    /\ route_options' = RouteOptionTable(route_options, t, v, RouteOption(before, after))
    /\ regHistory' = [regHistory EXCEPT ![t][v] = [handler |-> func,
                                                   options |-> RouteOption(before, after),
                                                   n |-> IF @.n < 2 THEN @.n + 1 ELSE 2]]
    /\ regCount' = regCount + 1
    /\ lastOp' = "route"
    /\ err' = "none"
    /\ errName' = ""
    /\ ClearObserved
    /\ UNCHANGED <<middlewares, middlewares_before, middlewares_after, pending>>

\* _validate_middleware: the name is free
ValidateOk(mws, name) == mws[name] = NoFunc

\* register_before_middleware(name) / register_after_middleware(name) /
\* register_middleware(name): validates the name and returns the decorator
RegisterName(kind, name) ==
    /\ regCount < MaxRegs
    /\ regCount' = regCount + 1
    /\ lastOp' = "register_name"
    /\ IF ValidateOk(middlewares, name)
       THEN /\ pending' = pending \cup {<<kind, name>>}
            /\ err' = "none"
            /\ errName' = ""
       ELSE /\ pending' = pending
            /\ err' = "ValueError"
            /\ errName' = name
    /\ ClearObserved
    /\ UNCHANGED <<routes, route_options, middlewares, middlewares_before,
                   middlewares_after, regHistory>>

\* the decorator returned by a register_* call, applied to func
ApplyDecorator(d, func) ==
    /\ d \in pending
    /\ pending' = pending \ {d}
    /\ lastOp' = "decorate"
    /\ IF has_params(func)
       THEN /\ middlewares' = [middlewares EXCEPT ![d[2]] = func]
            /\ middlewares_before' = IF d[1] = "before"
                                     THEN Append(middlewares_before, d[2])
                                     ELSE middlewares_before
            /\ middlewares_after' = IF d[1] = "after"
                                    THEN Append(middlewares_after, d[2])
                                    ELSE middlewares_after
            /\ err' = "none"
            /\ errName' = ""
       ELSE /\ UNCHANGED <<middlewares, middlewares_before, middlewares_after>>
            /\ err' = "ValueError"
            /\ errName' = d[2]
    /\ ClearObserved
    /\ UNCHANGED <<routes, route_options, regHistory, regCount>>

\* await router.dispatch(envelope)
Dispatch(e) ==
    LET r == DispatchResult(routes, route_options, middlewares, middlewares_before,
                            middlewares_after, e)
    IN /\ lastOp' = "dispatch"
       /\ env' = e
       /\ executed' = r.ran
       /\ err' = r.err
       /\ errName' = r.name
       /\ UNCHANGED <<routes, route_options, middlewares, middlewares_before,
                      middlewares_after, pending, regHistory, regCount>>

Envelopes == [type : Types, version : Versions]

Next ==
    \/ \E t \in Types, v \in Versions, o \in OptionChoices, f \in Handlers :
          Route(t, v, o[1], o[2], f) /\ UNCHANGED <<limiterVars, busVars, readyVars, callVars>>
    \/ \E k \in {"before", "after", "plain"}, n \in Names :
          RegisterName(k, n) /\ UNCHANGED <<limiterVars, busVars, readyVars, callVars>>
    \/ \E d \in pending, f \in MwFuncs : ApplyDecorator(d, f) /\ UNCHANGED <<limiterVars, busVars, readyVars, callVars>>
    \/ \E e \in Envelopes : Dispatch(e) /\ UNCHANGED <<limiterVars, busVars, readyVars, callVars>>

Spec == Init /\ [][Next]_vars

----------------------------------------------------------------------------
(* Properties of the event router *)

\* the names of the calls of one phase made by the last dispatch, in order
Ran(phase) ==
    LET sel == SelectSeq(executed, LAMBDA x : x[1] = phase)
    IN [i \in 1..Len(sel) |-> sel[i][2]]

FirstIndex(s, x) == CHOOSE i \in 1..Len(s) : s[i] = x /\ \A j \in 1..(i-1) : s[j] # x

\* out is the list in with later duplicates removed, first occurrences kept
IsFirstOccurrenceList(out, in) ==
    /\ \A i, j \in 1..Len(out) : i # j => out[i] # out[j]
    /\ {out[i] : i \in 1..Len(out)} = {in[i] : i \in 1..Len(in)}
    /\ \A i, j \in 1..Len(out) : i < j => FirstIndex(in, out[i]) < FirstIndex(in, out[j])

AllBefore == middlewares_before \o route_options[env.type][env.version].middleware_before
AllAfter == middlewares_after \o route_options[env.type][env.version].middleware_after

DispatchedRegistered == lastOp = "dispatch" /\ routes[env.type][env.version] # NoHandler

\* C1: in every dispatch of an envelope whose route is registered, the calls
\* are made in the order before-middlewares, handler, after-middlewares; the
\* before-middlewares called are global_before ++ options.middleware_before
\* with later duplicates removed, in that order, the handler is called once
\* after all of them, and the after-middlewares called are global_after ++
\* options.middleware_after deduplicated the same way. A dispatch that a
\* failing middleware ends early has made the calls of that order up to the
\* failing one.
C1_MiddlewareOrdering ==
    DispatchedRegistered =>
        /\ executed = SelectSeq(executed, LAMBDA x : x[1] = "before")
                       \o SelectSeq(executed, LAMBDA x : x[1] = "handler")
                       \o SelectSeq(executed, LAMBDA x : x[1] = "after")
        /\ \E k \in 0..Len(AllBefore) :
               IsFirstOccurrenceList(Ran("before"), SubSeq(AllBefore, 1, k))
        /\ \E k \in 0..Len(AllAfter) :
               IsFirstOccurrenceList(Ran("after"), SubSeq(AllAfter, 1, k))
        /\ Len(Ran("handler")) <= 1
        /\ Ran("after") # <<>> => Len(Ran("handler")) = 1
        /\ Len(Ran("handler")) = 1 =>
               /\ Ran("handler")[1] = routes[env.type][env.version]
               /\ IsFirstOccurrenceList(Ran("before"), AllBefore)
        /\ err = "none" =>
               /\ Len(Ran("handler")) = 1
               /\ IsFirstOccurrenceList(Ran("after"), AllAfter)

\* a dispatch that returned, having removed a duplicate from the before list
\* and from the after list
C1_Witness ==
    /\ DispatchedRegistered
    /\ err = "none"
    /\ Len(Ran("before")) >= 2
    /\ Len(Ran("before")) < Len(AllBefore)
    /\ Len(Ran("after")) < Len(AllAfter)

\* some before-middleware called by the last dispatch returned a falsy value
BeforeReturnedFalsy ==
    /\ lastOp = "dispatch"
    /\ \E i \in 1..Len(executed) :
          executed[i][1] = "before" /\ ~Truthy(middlewares[executed[i][2]])

\* C2: when a before-middleware returns a falsy value, dispatch raises
\* MiddlewareExecutionError(name, phase="before") naming that middleware, and
\* neither the handler nor a later before-middleware nor any after-middleware
\* is called.
C2_FalsyBeforeAborts ==
    BeforeReturnedFalsy =>
        /\ err = "MiddlewareExecutionError_before"
        /\ executed[Len(executed)] = <<"before", errName>>
        /\ ~Truthy(middlewares[errName])
        /\ \A i \in 1..(Len(executed) - 1) :
               executed[i][1] = "before" /\ Truthy(middlewares[executed[i][2]])
        /\ Ran("handler") = <<>>
        /\ Ran("after") = <<>>

\* a falsy before-middleware that was followed by another before-middleware
\* and by an after-middleware in the effective lists
C2_Witness ==
    /\ BeforeReturnedFalsy
    /\ routes[env.type][env.version] # NoHandler
    /\ Len(Ran("before")) >= 1
    /\ Len(Ran("before")) < Cardinality({AllBefore[i] : i \in 1..Len(AllBefore)})
    /\ AllAfter # <<>>

\* C3: dispatch of an envelope whose (type, version) has no registered handler
\* raises RouteNotFoundError and calls no middleware and no handler.
C3_RouteNotFound ==
    (lastOp = "dispatch" /\ regHistory[env.type][env.version].n = 0) =>
        /\ err = "RouteNotFoundError"
        /\ executed = <<>>

\* an unrouted dispatch while a global before-middleware is registered and the
\* same type is routed under another version
C3_Witness ==
    /\ lastOp = "dispatch"
    /\ regHistory[env.type][env.version].n = 0
    /\ err = "RouteNotFoundError"
    /\ middlewares_before # <<>>
    /\ \E v \in Versions : routes[env.type][v] # NoHandler

\* C4: after any sequence of registrations, get_route(e) is, for every
\* envelope e, the handler registered last against exactly (e.type, e.version),
\* and null when nothing was registered against that pair; the options held
\* for the pair are those of that last registration.
C4_RouterLookup ==
    \A e \in Envelopes :
        /\ get_route(routes, e) = regHistory[e.type][e.version].handler
        /\ route_options[e.type][e.version] = regHistory[e.type][e.version].options
        /\ regHistory[e.type][e.version].n = 0 => get_route(routes, e) = NoHandler

\* a pair registered twice, with another handler and other options the second
\* time, while the other version of its type was never registered
C4_Witness ==
    \E e \in Envelopes :
        /\ regHistory[e.type][e.version].n = 2
        /\ lastOp = "route"
        /\ get_route(routes, e) = "h2"
        /\ route_options[e.type][e.version].middleware_before = <<>>
        /\ \E v \in Versions : regHistory[e.type][v].n = 0

----------------------------------------------------------------------------
(* Audio ready handler: src/gateway/src/handlers/audio_ready_event.py.     *)
(* Each run is one delivery of events.dl.audio.ready; runs overlap when    *)
(* more than one gateway consumes the queue.  A run moves from one await   *)
(* to the next.                                                            *)

\* correlation ids of the ready events delivered
ReadyCids == {1, 2}

\* AUDIO_CACHE_TTL = 600  # 10 minutes
AUDIO_CACHE_TTL == 600

\* the TTL of a key or hash field written without ex= or expire: what the
\* TTL command answers for it
NoExpiry == -1

Running(i) == inv[i].pc \notin {"new", "done"}

busRestOfReady == <<gateway_events, nextCid, wslot, gslot, workerAlive, gwAlive,
                    optimistic_reply, graced, bucket, cleanup_event_counter,
                    video_content, published, passed, cleanups, counterExpired,
                    lastW, lastG>>

\* the ingress recorded start_time for both correlation ids; the content id
\* of the first object may be cached by a run that ended before
ReadyInit ==
    /\ RouterInit
    /\ CacheInit
    /\ ReadyIdle
    /\ CallIdle
    /\ BusQuietBesidesAudio
    /\ \E warm \in BOOLEAN :
          audio_content = [o \in Objects |-> IF warm /\ o = "o1" THEN MaxInv + 1 ELSE 0]
    /\ start_time = ReadyCids
    /\ graced = {}
    /\ cleanup_event_counter = 0

\* the handler is entered with a well-formed payload for object o; objects and
\* correlation ids are interchangeable, so the first run takes the first of each
Begin(i, o, c) ==
    /\ inv[i].pc = "new"
    /\ i = 1 => (o = "o1" /\ c = 1)
    /\ \A j \in 1..(i - 1) : inv[j].pc # "new"
    /\ inv' = [inv EXCEPT ![i] = [@ EXCEPT !.pc = "read_cache", !.obj = o, !.cid = c]]
    /\ overlapped' = overlapped \cup {{i, j} : j \in {k \in Invocations : Running(k)}}
    /\ UNCHANGED <<telegram_events, start_time, audio_content,
                   ongoing_audio_content>>

\* cached_file_id_raw = await ctx.redis.get(audio_content:{object_name})
ReadCache(i) ==
    /\ inv[i].pc = "read_cache"
    /\ inv' = [inv EXCEPT ![i] = [@ EXCEPT !.pc = "set_nx",
                                           !.cached = audio_content[inv[i].obj]]]
    /\ UNCHANGED <<overlapped, telegram_events, start_time, audio_content,
                   ongoing_audio_content>>

\* the handler goes on to re-publish itself when it neither took the lock nor
\* read a cached id
DeferAfterNX(was_set, cached) == ~was_set /\ cached = 0

\* await ctx.redis.set(ongoing_audio_content:{object_name}, "ongoing", ex=.., nx=True)
SetNX(i) ==
    LET o == inv[i].obj
        was_set == ongoing_audio_content[o] = 0
    IN /\ inv[i].pc = "set_nx"
       /\ ongoing_audio_content' =
              IF was_set THEN [ongoing_audio_content EXCEPT ![o] = i]
                         ELSE ongoing_audio_content
       /\ inv' = [inv EXCEPT ![i] = [@ EXCEPT
                     !.acq = was_set,
                     !.pc = IF DeferAfterNX(was_set, inv[i].cached)
                            THEN "defer" ELSE "start_time"]]
       /\ UNCHANGED <<overlapped, telegram_events, start_time, audio_content>>

\* after the sleep: the event is published again, with the routing key
\* 'telegram_events', and the handler returns
Defer(i) ==
    /\ inv[i].pc = "defer"
    /\ telegram_events' = Append(telegram_events,
            Msg("events.dl.audio.ready", inv[i].cid, "", "", inv[i].obj, "",
                {SnapshotFlag}, inv[i].cid))
    /\ inv' = [inv EXCEPT ![i] = [@ EXCEPT !.pc = "done", !.result = "deferred"]]
    /\ UNCHANGED <<overlapped, start_time, audio_content,
                   ongoing_audio_content>>

\* start_time_raw = await ctx.redis.hget(..); float(start_time_raw) raises
\* TypeError when the field is gone
StartTime(i) ==
    /\ inv[i].pc = "start_time"
    /\ inv' = [inv EXCEPT ![i] =
                 IF inv[i].cid \in start_time
                 THEN [@ EXCEPT !.pc = IF inv[i].cached # 0 THEN "send_cached"
                                                           ELSE "download"]
                 ELSE [@ EXCEPT !.pc = "done", !.result = "TypeError"]]
    /\ UNCHANGED <<overlapped, telegram_events, start_time, audio_content,
                   ongoing_audio_content>>

\* await telegram_app.send_audio(chat_id, audio=cached_file_id, ..); an
\* exception is caught and the handler falls through to the download
SendCached(i, ok) ==
    /\ inv[i].pc = "send_cached"
    /\ inv' = [inv EXCEPT ![i] = [@ EXCEPT !.pc = IF ok THEN "cached_del_lock"
                                                         ELSE "download"]]
    /\ UNCHANGED <<overlapped, telegram_events, start_time, audio_content,
                   ongoing_audio_content>>

\* await ctx.redis.delete(ongoing_audio_content:{object_name}) on the cached
\* path, then optimistic_reply_cleanup, the flag and the return
CachedDelLock(i) ==
    /\ inv[i].pc = "cached_del_lock"
    /\ ongoing_audio_content' = [ongoing_audio_content EXCEPT ![inv[i].obj] = 0]
    /\ inv' = [inv EXCEPT ![i] = [@ EXCEPT !.pc = "return", !.flag = TRUE,
                                           !.result = "cached"]]
    /\ UNCHANGED <<overlapped, telegram_events, start_time, audio_content>>

\* session.get(pre_signed_url): a status other than 200 returns at once
Download(i, ok) ==
    /\ inv[i].pc = "download"
    /\ inv' = [inv EXCEPT ![i] =
                 IF ok THEN [@ EXCEPT !.pc = "upload"]
                       ELSE [@ EXCEPT !.pc = "return", !.result = "download_failed"]]
    /\ UNCHANGED <<overlapped, telegram_events, start_time, audio_content,
                   ongoing_audio_content>>

\* msg = await telegram_app.send_audio(chat_id, audio=file_path, ..), the
\* caption edit, and file_id = getattr(msg.audio, "file_id", None); every
\* upload gets a content id of its own, here the number of the run
Upload(i, has_file_id) ==
    /\ inv[i].pc = "upload"
    /\ inv' = [inv EXCEPT ![i] =
                 IF has_file_id THEN [@ EXCEPT !.pc = "store", !.fid = i]
                 ELSE [@ EXCEPT !.pc = "return", !.result = "no_file_id"]]
    /\ UNCHANGED <<overlapped, telegram_events, start_time, audio_content,
                   ongoing_audio_content>>

\* await ctx.redis.set(audio_content:{object_name}, file_id, ex=AUDIO_CACHE_TTL)
Store(i) ==
    /\ inv[i].pc = "store"
    /\ audio_content' = [audio_content EXCEPT ![inv[i].obj] = inv[i].fid]
    /\ inv' = [inv EXCEPT ![i] = [@ EXCEPT !.pc = "del_lock", !.stored = TRUE,
                                           !.ttl = AUDIO_CACHE_TTL]]
    /\ UNCHANGED <<overlapped, telegram_events, start_time,
                   ongoing_audio_content>>

\* await ctx.redis.delete(ongoing_audio_content:{object_name}), then
\* optimistic_reply_cleanup, the flag and the return
DelLock(i) ==
    /\ inv[i].pc = "del_lock"
    /\ ongoing_audio_content' = [ongoing_audio_content EXCEPT ![inv[i].obj] = 0]
    /\ inv' = [inv EXCEPT ![i] = [@ EXCEPT !.pc = "return", !.flag = TRUE,
                                           !.result = "uploaded"]]
    /\ UNCHANGED <<overlapped, telegram_events, start_time, audio_content>>

\* the handler has returned: maybe_cleanup_correlation_redis deletes start_time
\* when the payload carries the flag
Return(i) ==
    /\ inv[i].pc = "return"
    /\ start_time' = IF inv[i].flag THEN start_time \ {inv[i].cid} ELSE start_time
    /\ inv' = [inv EXCEPT ![i] = [@ EXCEPT !.pc = "done"]]
    /\ UNCHANGED <<overlapped, telegram_events, audio_content,
                   ongoing_audio_content>>

\* the interest lock runs out of its TTL
LockExpires(o) ==
    /\ ongoing_audio_content[o] # 0
    /\ ongoing_audio_content' = [ongoing_audio_content EXCEPT ![o] = 0]
    /\ UNCHANGED <<inv, overlapped, telegram_events, start_time, audio_content>>

\* the cached content id runs out of its TTL
CacheExpires(o) ==
    /\ audio_content[o] # 0
    /\ audio_content' = [audio_content EXCEPT ![o] = 0]
    /\ UNCHANGED <<inv, overlapped, telegram_events, start_time,
                   ongoing_audio_content>>

ReadyFrame == UNCHANGED <<routerVars, limiterVars, busRestOfReady, callVars>>

ReadyNext ==
    \/ \E i \in Invocations, o \in Objects, c \in ReadyCids : Begin(i, o, c) /\ ReadyFrame
    \/ \E i \in Invocations : ReadCache(i) /\ ReadyFrame
    \/ \E i \in Invocations : SetNX(i) /\ ReadyFrame
    \/ \E i \in Invocations : Defer(i) /\ ReadyFrame
    \/ \E i \in Invocations : StartTime(i) /\ ReadyFrame
    \/ \E i \in Invocations, ok \in BOOLEAN : SendCached(i, ok) /\ ReadyFrame
    \/ \E i \in Invocations : CachedDelLock(i) /\ ReadyFrame
    \/ \E i \in Invocations, ok \in BOOLEAN : Download(i, ok) /\ ReadyFrame
    \/ \E i \in Invocations, f \in BOOLEAN : Upload(i, f) /\ ReadyFrame
    \/ \E i \in Invocations : Store(i) /\ ReadyFrame
    \/ \E i \in Invocations : DelLock(i) /\ ReadyFrame
    \/ \E i \in Invocations : Return(i) /\ ReadyFrame
    \/ \E o \in Objects : LockExpires(o) /\ ReadyFrame
    \/ \E o \in Objects : CacheExpires(o) /\ ReadyFrame

ReadySpec == ReadyInit /\ [][ReadyNext]_vars

\* ---- video ready handler: src/gateway/src/handlers/video_ready_event.py ----
\* Runs overlap as those of the audio handler do; the handler takes no lock
\* and publishes nothing.

busRestOfVideo == <<telegram_events, gateway_events, nextCid, wslot, gslot,
                    workerAlive, gwAlive, start_time, optimistic_reply, graced,
                    bucket, cleanup_event_counter, audio_content,
                    ongoing_audio_content, published, passed, cleanups,
                    counterExpired, lastW, lastG>>

\* the handler is entered with a well-formed payload for object o
VideoBegin(i, o, c) ==
    /\ inv[i].pc = "new"
    /\ i = 1 => (o = "o1" /\ c = 1)
    /\ \A j \in 1..(i - 1) : inv[j].pc # "new"
    /\ inv' = [inv EXCEPT ![i] = [@ EXCEPT !.pc = "start_time", !.obj = o, !.cid = c]]
    /\ overlapped' = overlapped \cup {{i, j} : j \in {k \in Invocations : Running(k)}}
    /\ UNCHANGED video_content

\* start_time_raw = await ctx.redis.hget(..); float(start_time_raw)
VideoStartTime(i) ==
    /\ inv[i].pc = "start_time"
    /\ inv' = [inv EXCEPT ![i] =
                 IF inv[i].cid \in start_time
                 THEN [@ EXCEPT !.pc = "read_cache"]
                 ELSE [@ EXCEPT !.pc = "done", !.result = "TypeError"]]
    /\ UNCHANGED <<overlapped, video_content>>

\* cached_file_id_raw = await ctx.redis.hget("video_content", object_name)
VideoReadCache(i) ==
    /\ inv[i].pc = "read_cache"
    /\ inv' = [inv EXCEPT ![i] = [@ EXCEPT
                 !.cached = video_content[inv[i].obj],
                 !.pc = IF video_content[inv[i].obj] # 0 THEN "send_cached"
                                                         ELSE "download"]]
    /\ UNCHANGED <<overlapped, video_content>>

\* await telegram_app.send_video(chat_id, video=cached_file_id, ..); return
VideoSendCached(i) ==
    /\ inv[i].pc = "send_cached"
    /\ inv' = [inv EXCEPT ![i] = [@ EXCEPT !.pc = "done", !.result = "cached"]]
    /\ UNCHANGED <<overlapped, video_content>>

\* session.get(pre_signed_url): a status other than 200 returns at once
VideoDownload(i, ok) ==
    /\ inv[i].pc = "download"
    /\ inv' = [inv EXCEPT ![i] =
                 IF ok THEN [@ EXCEPT !.pc = "upload"]
                       ELSE [@ EXCEPT !.pc = "done", !.result = "download_failed"]]
    /\ UNCHANGED <<overlapped, video_content>>

\* msg = await telegram_app.send_video(chat_id, video=file_path, ..), the
\* caption edit, and file_id = getattr(msg.video, "file_id", None); acq is
\* not used by this handler, fid is the content id of the upload
VideoUpload(i, has_file_id) ==
    /\ inv[i].pc = "upload"
    /\ inv' = [inv EXCEPT ![i] =
                 IF has_file_id THEN [@ EXCEPT !.pc = "store", !.fid = i]
                 ELSE [@ EXCEPT !.pc = "done", !.result = "no_file_id"]]
    /\ UNCHANGED <<overlapped, video_content>>

\* await ctx.redis.hset("video_content", object_name, file_id)
VideoStore(i) ==
    /\ inv[i].pc = "store"
    /\ video_content' = [video_content EXCEPT ![inv[i].obj] = inv[i].fid]
    /\ inv' = [inv EXCEPT ![i] = [@ EXCEPT !.pc = "done", !.stored = TRUE,
                                           !.result = "uploaded",
                                           !.ttl = NoExpiry]]
    /\ UNCHANGED overlapped

VideoFrame == UNCHANGED <<routerVars, limiterVars, busRestOfVideo, callVars>>

VideoNext ==
    \/ \E i \in Invocations, o \in Objects, c \in ReadyCids :
          VideoBegin(i, o, c) /\ VideoFrame
    \/ \E i \in Invocations : VideoStartTime(i) /\ VideoFrame
    \/ \E i \in Invocations : VideoReadCache(i) /\ VideoFrame
    \/ \E i \in Invocations : VideoSendCached(i) /\ VideoFrame
    \/ \E i \in Invocations, ok \in BOOLEAN : VideoDownload(i, ok) /\ VideoFrame
    \/ \E i \in Invocations, f \in BOOLEAN : VideoUpload(i, f) /\ VideoFrame
    \/ \E i \in Invocations : VideoStore(i) /\ VideoFrame

VideoSpec == ReadyInit /\ [][VideoNext]_vars

\* C7: two runs of the ready handler for the same object that were in progress
\* together never both upload the artifact and store a new cached content id.
C7_SingleUpload ==
    \A i, j \in Invocations :
        (i # j /\ {i, j} \in overlapped /\ inv[i].obj = inv[j].obj)
            => ~(inv[i].stored /\ inv[j].stored)

----------------------------------------------------------------------------
(* The bus: gateway ingress (src/gateway/main.py), the worker's consumer   *)
(* loop (src/media-pirate/main.py) and the gateway's consumer loop with    *)
(* its routes and middlewares (src/gateway/main.py).  A consumer handles   *)
(* one message at a time, so a step is the handling of one message.        *)

TheChat == "c1"

\* if count >= 100
CleanupThreshold == 100

\* TELEGRAM_COMMAND_TO_EVENT of the worker ("" stands for None)
WorkerCommandToEvent(cmd) ==
    CASE cmd = ".vdl" -> "commands.media.video_download"
      [] cmd = ".adl" -> "commands.media.audio_download"
      [] OTHER -> ""

\* TELEGRAM_COMMAND_TO_EVENT of the gateway
GatewayCommandToEvent(cmd) ==
    CASE cmd = ".grace" -> "commands.gateway.grace"
      [] cmd = ".smite" -> "commands.gateway.smite"
      [] OTHER -> ""

\* mutant of SetCorrelationId: the slot keeps its value
SetCorrelationId_Keep(slot, cid) == slot

\* set_correlation_id(correlation_id): the new value of the task's slot
SetCorrelationId(slot, cid) == cid

\* mutant of get_correlation_id: the default of the context variable
get_correlation_id_Unset(slot) == 0

\* get_correlation_id()
get_correlation_id(slot) == slot

Pub(q, m) == [q |-> q, m |-> m]

\* the envelopes of a list of publications that went to queue q, in order
ToQueue(pubs, q) ==
    LET F[i \in 0..Len(pubs)] ==
            IF i = 0 THEN <<>>
            ELSE IF pubs[i].q = q THEN Append(F[i-1], pubs[i].m) ELSE F[i-1]
    IN F[Len(pubs)]

\* commands.gateway.reply; text "optimistic" carries persistence_key
Reply(cid, text, parent) ==
    Msg("commands.gateway.reply", cid, "", "", "none", text, {}, parent)

\* ---- gateway ingress: event_bus_handler ----
\* The handler runs in a task of the Telegram client and sets that task's
\* slot, not the slot of a consumer.

\* mutant of is_admin: every sender is taken for the admin
is_admin_Any(user_id) == TRUE

\* Authenticator.is_admin: the id is the configured TELEGRAM_ADMIN_USER_ID
is_admin(user_id) == user_id = "admin"

\* int(id) returns: the ids of users and chats are numbers, the defaults
\* 'UnknownUser' and 'UnknownChat' of event_bus_handler are not
IntOk(id) == id \notin {"UnknownUser", "UnknownChat"}

\* mutant of Authenticator_is_allowed: the ids are not converted
Authenticator_is_allowed_NoInt(user_id, chat_id, gr) ==
    is_admin(user_id) \/ chat_id \in gr

\* Authenticator.is_allowed(user_id, chat_id, ctx); gr holds the chats whose
\* key graced_chat:{chat_id} is in the cache
Authenticator_is_allowed(user_id, chat_id, gr) ==
    IF ~IntOk(user_id) \/ ~IntOk(chat_id) THEN FALSE
    ELSE is_admin(user_id) \/ chat_id \in gr

\* mutant of Authenticated: every sender is let in
Authenticated_Any(user, gr) == TRUE

\* is_authenticated of event_bus_handler, for a message of the one chat
Authenticated(user, gr) == Authenticator_is_allowed(user, TheChat, gr)

\* handle_grace_command: redis.set(graced_chat:{chat_id}, ..., ex=604800)
handle_grace_command(gr, chat_id) == gr \cup {chat_id}

\* mutant of handle_smite_command: the key is not deleted
handle_smite_command_Keep(gr, chat_id) == gr

\* handle_smite_command: redis.delete(graced_chat:{chat_id})
handle_smite_command(gr, chat_id) == gr \ {chat_id}

Ingress(user, cmd, url) ==
    LET cid == nextCid
        raw == Msg("events.telegram.raw", cid, user, cmd, url, "", {}, 0)
        pubs == IF is_admin(user)
                THEN <<Pub("telegram_events", raw), Pub("gateway_events", raw)>>
                ELSE <<Pub("telegram_events", raw)>>
    IN /\ nextCid <= MaxMsgs
       \* main(): an exception of gateway_event_processor ends asyncio.gather and
       \* the finally clause stops the Telegram client
       /\ gwAlive
       /\ nextCid' = nextCid + 1
       /\ IF Authenticated(user, graced)
          THEN /\ start_time' = start_time \cup {cid}
               /\ telegram_events' = telegram_events \o ToQueue(pubs, "telegram_events")
               /\ gateway_events' = gateway_events \o ToQueue(pubs, "gateway_events")
               /\ published' = published \o pubs
          ELSE UNCHANGED <<start_time, telegram_events, gateway_events, published>>
       /\ UNCHANGED <<wslot, gslot, workerAlive, gwAlive, optimistic_reply, graced,
                      bucket, cleanup_event_counter, audio_content,
                      ongoing_audio_content, video_content, passed, cleanups,
                      counterExpired, lastW, lastG>>
       /\ UNCHANGED <<routerVars, limiterVars, readyVars, callVars>>

\* ---- what both consumer loops do first with a delivery ----

\* mutant of Decodes: every body is taken for JSON
Decodes_Any(m) == TRUE

\* json.loads(body_str) returns; a body that is not JSON is carried by the
\* model as an envelope of type "malformed"
Decodes(m) == m.type # "malformed"

\* mutant of HasCorrelationId: the check is left out
HasCorrelationId_Any(m) == TRUE

\* correlation_id = body.get('correlation_id', ''); if not correlation_id: raise
HasCorrelationId(m) == m.cid # 0

\* ---- worker: the loop of main() ----

\* mutant of RawOutcome: the rate limit is not consulted
RawOutcome_NoLimit(cmd, allowed) ==
    IF cmd = "" THEN "no_command"
    ELSE IF WorkerCommandToEvent(cmd) = "" THEN "unmapped"
    ELSE "mapped"

\* case 'events.telegram.raw': which way the handling of a raw event goes
RawOutcome(cmd, allowed) ==
    IF cmd = "" THEN "no_command"
    ELSE IF WorkerCommandToEvent(cmd) = "" THEN "unmapped"
    ELSE IF ~allowed THEN "rate_limited"
    ELSE "mapped"

MediaKind(type) == IF type = "commands.media.video_download" THEN "video" ELSE "audio"

ReadyType(kind) == IF kind = "video" THEN "events.dl.video.ready"
                                     ELSE "events.dl.audio.ready"

\* what handling message m does: the publications, in order, the rate limit
\* keys, the object store and how the handling ended
WorkerEffects(m, slot) ==
    LET none == [pubs |-> <<>>, rl |-> rate_limit, incr |-> FALSE, bucket |-> bucket,
                 outcome |-> "unknown_type"]
    IN IF m.type = "events.telegram.raw"
       THEN LET out == RawOutcome(m.cmd, is_allowed(rate_limit, now, m.user))
            IN IF out = "rate_limited"
               THEN [none EXCEPT !.outcome = out,
                       !.pubs = <<Pub("gateway_events", Reply(m.cid, "too_many", m.cid))>>]
               ELSE IF out = "mapped"
               THEN [none EXCEPT !.outcome = out,
                       !.pubs = <<Pub("telegram_events",
                                      Msg(WorkerCommandToEvent(m.cmd), m.cid, m.user,
                                          m.cmd, m.url, "", m.flags, m.cid)),
                                  Pub("gateway_events",
                                      Reply(m.cid, "optimistic", m.cid))>>,
                       !.rl = Incremented(rate_limit, now, m.user),
                       !.incr = TRUE]
               ELSE [none EXCEPT !.outcome = out]
       ELSE IF m.type \in {"commands.media.video_download",
                           "commands.media.audio_download"}
       THEN LET kind == MediaKind(m.type)
                ready == Pub("gateway_events",
                             Msg(ReadyType(kind), m.cid, m.user, m.cmd, m.url, "",
                                 {}, m.cid))
            IN IF m.url = "none" THEN [none EXCEPT !.outcome = "no_url"]
               ELSE IF <<kind, m.url>> \in bucket
               THEN [none EXCEPT !.outcome = "stored_hit", !.pubs = <<ready>>]
               ELSE IF m.url = "bad"
               THEN [none EXCEPT !.outcome = "DownloadError",
                       !.pubs = IF get_correlation_id(slot) \in optimistic_reply
                                THEN <<Pub("gateway_events",
                                           Msg("commands.gateway.message-update",
                                               get_correlation_id(slot), "", "",
                                               "none", "unsupported", {}, m.cid))>>
                                ELSE <<>>]
               ELSE [none EXCEPT !.outcome = "downloaded", !.pubs = <<ready>>,
                       !.bucket = bucket \cup {<<kind, m.url>>}]
       ELSE none

WorkerStep ==
    /\ workerAlive
    /\ telegram_events # <<>>
    /\ LET m == Head(telegram_events)
           rest == Tail(telegram_events)
       IN IF ~Decodes(m)
          THEN \* json.JSONDecodeError: continue
               /\ telegram_events' = rest
               /\ lastW' = [NoStep EXCEPT !.type = m.type, !.outcome = "invalid_json",
                                          !.prev = wslot]
               /\ UNCHANGED <<gateway_events, wslot, workerAlive, bucket, published,
                              rate_limit, calls>>
          ELSE IF ~HasCorrelationId(m)
          THEN \* raise ValueError("correlation_id is required for all events")
               /\ telegram_events' = rest
               /\ workerAlive' = FALSE
               /\ lastW' = [NoStep EXCEPT !.type = m.type, !.outcome = "ValueError",
                                          !.prev = wslot]
               /\ UNCHANGED <<gateway_events, wslot, bucket, published, rate_limit,
                              calls>>
          ELSE \E slot \in {SetCorrelationId(wslot, m.cid)} :
               \E e \in {WorkerEffects(m, slot)} :
               LET sane == get_correlation_id(slot) = m.cid
               IN /\ wslot' = slot
                  /\ telegram_events' = rest \o ToQueue(e.pubs, "telegram_events")
                  /\ gateway_events' = gateway_events \o ToQueue(e.pubs, "gateway_events")
                  /\ published' = published \o e.pubs
                  /\ rate_limit' = e.rl
                  /\ calls' = IF e.incr THEN [calls EXCEPT ![m.user] = @ + 1] ELSE calls
                  /\ bucket' = e.bucket
                  \* the sanity check is skipped by the continue statements
                  /\ workerAlive' = (sane \/ e.outcome \in {"no_command", "unmapped",
                                                             "rate_limited"})
                  /\ lastW' = [type |-> m.type, cid |-> m.cid, snapshot |-> 0,
                               prev |-> wslot,
                               outcome |-> IF workerAlive' THEN e.outcome
                                                            ELSE "RuntimeError"]
    /\ UNCHANGED <<nextCid, gslot, gwAlive, start_time, optimistic_reply, graced,
                   cleanup_event_counter, audio_content, ongoing_audio_content,
                   video_content, passed, cleanups, counterExpired, lastG>>
    /\ UNCHANGED <<now, wasDenied, lobs>>
    /\ UNCHANGED <<routerVars, readyVars, callVars>>

\* ---- gateway: routes, middlewares and gateway_event_processor ----

\* the global lists, in the order the decorators run at import
GwGlobalBefore == <<"correlation_guard_prepare", "logger">>
GwGlobalAfter == <<"correlation_guard_validate", "cleanup_counter_increment">>

GwRouted == {"events.telegram.raw", "commands.gateway.grace", "commands.gateway.smite",
             "events.dl.video.ready", "events.dl.audio.ready",
             "commands.gateway.downloads-cleanup", "commands.gateway.reply",
             "commands.gateway.message-update"}

\* the options each route is declared with
GwOptions(type) ==
    IF type = "events.telegram.raw" THEN RouteOption(<<>>, <<>>)
    ELSE IF type \in {"commands.gateway.grace", "commands.gateway.smite",
                      "events.dl.video.ready", "events.dl.audio.ready"}
    THEN RouteOption(<<"correlation_guard_prepare">>,
                     <<"correlation_guard_validate", "maybe_cleanup_correlation_redis">>)
    ELSE RouteOption(<<"correlation_guard_prepare">>, <<"correlation_guard_validate">>)

\* mutant of CleanupDue: the comparison is strict
CleanupDue_Strict(count) == count > CleanupThreshold

\* if count >= 100
CleanupDue(count) == count >= CleanupThreshold

\* downloads_cleanup_dispatcher: the envelope carries a correlation id of its own
CleanupCommand(cid, max_delete, parent) ==
    [Msg("commands.gateway.downloads-cleanup", cid, "", "", "none", "", {}, parent)
        EXCEPT !.max_delete = max_delete]

\* the state a dispatch works on
GwBegin(m) ==
    [slot |-> SetCorrelationId(gslot, m.cid),
     snapshot |-> IF SnapshotFlag \in m.flags THEN m.cid ELSE -1,
     flags |-> m.flags, pubs |-> <<>>, err |-> "none", ret |-> "",
     start_time |-> start_time, optimistic_reply |-> optimistic_reply,
     graced |-> graced, counter |-> cleanup_event_counter,
     audio |-> audio_content, ongoing |-> ongoing_audio_content,
     video |-> video_content, nextCid |-> nextCid, passed |-> passed,
     cleanups |-> cleanups]

\* one middleware function applied to the state of the dispatch
ApplyMiddleware(name, g, m) ==
    CASE name = "correlation_guard_prepare" ->
            [g EXCEPT !.flags = @ \cup {SnapshotFlag},
                      !.snapshot = get_correlation_id(g.slot)]
      [] name = "correlation_guard_validate" ->
            IF g.snapshot # get_correlation_id(g.slot)
            THEN [g EXCEPT !.err = "RuntimeError"]
            ELSE g
      [] name = "cleanup_counter_increment" ->
            LET count == g.counter + 1
            IN IF CleanupDue(count)
               THEN [g EXCEPT !.counter = 0,
                              !.pubs = Append(@, Pub("gateway_events",
                                          CleanupCommand(g.nextCid, 100, m.cid))),
                              !.nextCid = @ + 1,
                              !.cleanups = @ + 1,
                              !.passed = @ + 1]
               ELSE [g EXCEPT !.counter = count, !.passed = @ + 1]
      [] name = "maybe_cleanup_correlation_redis" ->
            IF CleanupFlag \in g.flags
            THEN [g EXCEPT !.start_time = @ \ {get_correlation_id(g.slot)}]
            ELSE g
      [] OTHER -> g

\* the loop of dispatch over a middleware list; an exception ends it
RECURSIVE RunMiddlewares(_, _, _)
RunMiddlewares(names, g, m) ==
    IF names = <<>> \/ g.err # "none" THEN g
    ELSE RunMiddlewares(Tail(names), ApplyMiddleware(Head(names), g, m), m)

\* optimistic_reply_cleanup
OptimisticReplyCleanup(g) ==
    [g EXCEPT !.optimistic_reply = @ \ {get_correlation_id(g.slot)}]

\* audio_ready_event_handler run on its own, from its first line to its return
AudioReady(g, m, ok) ==
    LET o == m.url
        cached == g.audio[o]
        was_set == g.ongoing[o] = 0
        g1 == IF was_set THEN [g EXCEPT !.ongoing[o] = m.cid] ELSE g
    IN IF DeferAfterNX(was_set, cached)
       THEN [g1 EXCEPT !.ret = "deferred",
                       !.pubs = Append(@, Pub("telegram_events",
                                   Msg("events.dl.audio.ready", get_correlation_id(g.slot),
                                       m.user, m.cmd, m.url, "", g.flags, m.cid)))]
       ELSE IF get_correlation_id(g.slot) \notin g.start_time
       THEN [g1 EXCEPT !.err = "TypeError"]
       ELSE IF cached # 0
       THEN [OptimisticReplyCleanup(g1) EXCEPT !.ongoing[o] = 0,
                                               !.flags = @ \cup {CleanupFlag},
                                               !.ret = "cached"]
       ELSE IF ~ok
       THEN [g1 EXCEPT !.ret = "download_failed"]
       ELSE [OptimisticReplyCleanup(g1) EXCEPT !.audio[o] = m.cid,
                                               !.ongoing[o] = 0,
                                               !.flags = @ \cup {CleanupFlag},
                                               !.ret = "uploaded"]

\* video_ready_event_handler
VideoReady(g, m, ok) ==
    LET o == m.url
    IN IF get_correlation_id(g.slot) \notin g.start_time
       THEN [g EXCEPT !.err = "TypeError"]
       ELSE IF g.video[o] # 0 THEN [g EXCEPT !.ret = "cached"]
       ELSE IF ~ok THEN [g EXCEPT !.ret = "download_failed"]
       ELSE [g EXCEPT !.video[o] = m.cid, !.ret = "uploaded"]

\* the route handlers
GwHandler(g, m, ok) ==
    CASE m.type = "events.telegram.raw" ->
            IF GatewayCommandToEvent(m.cmd) = "" THEN g
            ELSE IF ~is_allowed(rate_limit, now, m.user)
            THEN [g EXCEPT !.pubs = Append(@, Pub("gateway_events",
                        Reply(get_correlation_id(g.slot), "too_many", m.cid)))]
            ELSE [g EXCEPT !.pubs = Append(@, Pub("gateway_events",
                        Msg(GatewayCommandToEvent(m.cmd), get_correlation_id(g.slot),
                            m.user, m.cmd, m.url, "", g.flags, m.cid)))]
      [] m.type = "commands.gateway.grace" ->
            [g EXCEPT !.graced = handle_grace_command(@, TheChat)]
      [] m.type = "commands.gateway.smite" ->
            [g EXCEPT !.graced = handle_smite_command(@, TheChat)]
      [] m.type = "events.dl.video.ready" -> VideoReady(g, m, ok)
      [] m.type = "events.dl.audio.ready" -> AudioReady(g, m, ok)
      [] m.type = "commands.gateway.reply" ->
            IF m.text = "optimistic"
            THEN [g EXCEPT !.optimistic_reply = @ \cup {get_correlation_id(g.slot)}]
            ELSE g
      [] OTHER -> g

\* router.dispatch(envelope) with the gateway's registrations
GwDispatch(m, ok) ==
    LET opts == GwOptions(m.type)
        g0 == RunMiddlewares(UniqueMiddlewareBefore(GwGlobalBefore, opts), GwBegin(m), m)
        g1 == IF g0.err = "none" THEN GwHandler(g0, m, ok) ELSE g0
    IN IF g1.err = "none"
       THEN RunMiddlewares(UniqueMiddlewareAfter(GwGlobalAfter, opts), g1, m)
       ELSE g1

GatewayStep(ok) ==
    /\ gwAlive
    /\ gateway_events # <<>>
    /\ LET m == Head(gateway_events)
           rest == Tail(gateway_events)
       IN IF ~Decodes(m)
          THEN \* json.JSONDecodeError: continue
               /\ gateway_events' = rest
               /\ lastG' = [NoStep EXCEPT !.type = m.type, !.outcome = "invalid_json",
                                          !.prev = gslot]
               /\ UNCHANGED <<telegram_events, nextCid, gslot, gwAlive, start_time,
                              optimistic_reply, graced, cleanup_event_counter,
                              audio_content, ongoing_audio_content, video_content,
                              published, passed, cleanups>>
          ELSE IF ~HasCorrelationId(m)
          THEN \* raise ValueError("correlation_id is required for all events")
               /\ gateway_events' = rest
               /\ gwAlive' = FALSE
               /\ lastG' = [NoStep EXCEPT !.type = m.type, !.outcome = "ValueError",
                                          !.prev = gslot]
               /\ UNCHANGED <<telegram_events, nextCid, gslot, start_time,
                              optimistic_reply, graced, cleanup_event_counter,
                              audio_content, ongoing_audio_content, video_content,
                              published, passed, cleanups>>
          ELSE IF m.type \notin GwRouted
          THEN \* if not route: continue
               /\ gateway_events' = rest
               /\ gslot' = SetCorrelationId(gslot, m.cid)
               /\ lastG' = [NoStep EXCEPT !.type = m.type, !.cid = m.cid,
                                          !.outcome = "unrouted", !.prev = gslot]
               /\ UNCHANGED <<telegram_events, nextCid, gwAlive, start_time,
                              optimistic_reply, graced, cleanup_event_counter,
                              audio_content, ongoing_audio_content, video_content,
                              published, passed, cleanups>>
          ELSE \E g \in {GwDispatch(m, ok)} :
                  /\ gslot' = g.slot
                  /\ gateway_events' = rest \o ToQueue(g.pubs, "gateway_events")
                  /\ telegram_events' = telegram_events \o ToQueue(g.pubs, "telegram_events")
                  /\ published' = published \o g.pubs
                  /\ nextCid' = g.nextCid
                  /\ start_time' = g.start_time
                  /\ optimistic_reply' = g.optimistic_reply
                  /\ graced' = g.graced
                  /\ cleanup_event_counter' = g.counter
                  /\ audio_content' = g.audio
                  /\ ongoing_audio_content' = g.ongoing
                  /\ video_content' = g.video
                  /\ passed' = g.passed
                  /\ cleanups' = g.cleanups
                  \* an exception of dispatch leaves the loop
                  /\ gwAlive' = (g.err = "none")
                  /\ lastG' = [type |-> m.type, cid |-> m.cid, snapshot |-> g.snapshot,
                               prev |-> gslot,
                               outcome |-> IF g.err = "none" THEN "ok" ELSE g.err]
    /\ UNCHANGED <<wslot, workerAlive, bucket, counterExpired, lastW>>
    /\ UNCHANGED <<routerVars, limiterVars, readyVars, callVars>>

\* ---- the bus with both services ----

\* a chat message: its sender, its first word and the URL it names; "o1" is a
\* URL whose media downloads, "bad" one the downloader rejects
IngressInputs == {<<"admin", ".grace", "none">>, <<"admin", ".smite", "none">>,
                  <<"admin", ".adl", "o1">>, <<"u1", ".vdl", "bad">>,
                  <<"u1", ".grace", "none">>}

\* either nothing has happened yet, or the chat is graced, every user has
\* made max_requests - 1 admitted commands in the window that began at time 0,
\* and the gateway has passed CleanupThreshold - 1 events since the last sweep
BusInit ==
    /\ RouterInit
    /\ ReadyIdle
    /\ CallIdle
    /\ BusQuiet
    /\ start_time = {}
    /\ now = 0
    /\ wasDenied = [u \in Users |-> FALSE]
    /\ lobs = [op |-> "none", user |-> "", result |-> 0]
    /\ \E warm \in BOOLEAN :
          /\ rate_limit = [u \in Users |-> [w \in WindowStarts |->
                              IF warm /\ w = 0
                              THEN [val |-> MaxRequests - 1, exp |-> WindowSeconds]
                              ELSE NoKey]]
          /\ calls = [u \in Users |-> IF warm THEN MaxRequests - 1 ELSE 0]
          /\ graced = IF warm THEN {TheChat} ELSE {}
          /\ cleanup_event_counter = IF warm THEN CleanupThreshold - 1 ELSE 0

BusNext ==
    \/ \E i \in IngressInputs : Ingress(i[1], i[2], i[3])
    \/ WorkerStep
    \/ \E ok \in BOOLEAN : GatewayStep(ok)

BusSpec == BusInit /\ [][BusNext]_vars

\* ---- the bus with media commands that succeed ----

\* chat messages of the admin: a video and an audio command for a URL the
\* downloader supports
FlowInputs == {<<"admin", ".vdl", "o1">>, <<"admin", ".adl", "o1">>}

FlowNext ==
    \/ \E i \in FlowInputs : Ingress(i[1], i[2], i[3])
    \/ WorkerStep
    \/ \E ok \in BOOLEAN : GatewayStep(ok)

FlowSpec == BusInit /\ [][FlowNext]_vars

\* ---- the gateway consumer fed by other publishers ----

\* envelopes put on gateway_events: every kind the loop tells apart
FeedMsgs == {Reply(1, "too_many", 0),
             Msg("events.unknown", 1, "", "", "none", "", {}, 0),
             Msg("malformed", 0, "", "", "none", "", {}, 0),
             Reply(0, "too_many", 0)}

FeedInit ==
    /\ RouterInit
    /\ CacheInit
    /\ ReadyIdle
    /\ CallIdle
    /\ telegram_events = <<>>
    /\ gateway_events = <<>>
    /\ nextCid = 2
    /\ wslot = 0
    /\ gslot = 0
    /\ workerAlive = TRUE
    /\ gwAlive = TRUE
    /\ optimistic_reply = {}
    /\ bucket = {}
    /\ audio_content = [o \in Objects |-> 0]
    /\ ongoing_audio_content = [o \in Objects |-> 0]
    /\ video_content = [o \in Objects |-> 0]
    /\ published = <<>>
    /\ passed = 0
    /\ cleanups = 0
    /\ counterExpired = FALSE
    /\ lastW = NoStep
    /\ lastG = NoStep
    /\ start_time = {1}
    /\ graced = {}
    /\ cleanup_event_counter = 0

Feed(m) ==
    /\ gwAlive
    /\ gateway_events = <<>>
    /\ passed < MaxEvents
    /\ gateway_events' = <<m>>
    /\ UNCHANGED <<telegram_events, nextCid, wslot, gslot, workerAlive, gwAlive,
                   start_time, optimistic_reply, graced, bucket, cleanup_event_counter,
                   audio_content, ongoing_audio_content, video_content, published,
                   passed, cleanups, counterExpired, lastW, lastG>>
    /\ UNCHANGED <<routerVars, limiterVars, readyVars, callVars>>

\* ctx.redis.expire(key, 86400): a day goes by without an event and the key
\* cleanup_event_counter is gone
CounterExpires ==
    /\ cleanup_event_counter # 0
    /\ gateway_events = <<>>
    /\ cleanup_event_counter' = 0
    /\ counterExpired' = TRUE
    /\ UNCHANGED <<telegram_events, gateway_events, nextCid, wslot, gslot, workerAlive,
                   gwAlive, start_time, optimistic_reply, graced, bucket,
                   audio_content, ongoing_audio_content, video_content, published,
                   passed, cleanups, lastW, lastG>>
    /\ UNCHANGED <<routerVars, limiterVars, readyVars, callVars>>

FeedNext ==
    \/ \E m \in FeedMsgs : Feed(m)
    \/ \E ok \in BOOLEAN : GatewayStep(ok)
    \/ CounterExpires

FeedSpec == FeedInit /\ [][FeedNext]_vars

\* ---- both consumers fed by other publishers ----

\* deliveries to gateway_events: a body that is not JSON, an envelope without
\* a correlation id, an unrouted type, a reply, and a ready event whose
\* correlation hash holds no start_time any more
IntakeGwMsgs == {Msg("malformed", 0, "", "", "none", "", {}, 0),
                 Reply(0, "too_many", 0),
                 Msg("events.unknown", 1, "", "", "none", "", {}, 0),
                 Reply(1, "too_many", 0),
                 Msg("events.dl.audio.ready", 2, "u1", ".adl", "o1", "", {}, 0)}

\* deliveries to telegram_events
IntakeWorkerMsgs == {Msg("malformed", 0, "", "", "none", "", {}, 0),
                     Msg("events.telegram.raw", 0, "u1", ".adl", "o1", "", {}, 0),
                     Msg("events.telegram.raw", 1, "u1", ".adl", "o1", "", {}, 0),
                     Msg("events.unknown", 1, "", "", "none", "", {}, 0)}

\* a publisher puts m on gateway_events, whether or not the consumer lives
PublishToGateway(m) ==
    /\ gateway_events = <<>>
    /\ Len(published) + passed < MaxIntake
    /\ gateway_events' = <<m>>
    /\ UNCHANGED <<telegram_events, nextCid, wslot, gslot, workerAlive, gwAlive,
                   start_time, optimistic_reply, graced, bucket, cleanup_event_counter,
                   audio_content, ongoing_audio_content, video_content, published,
                   passed, cleanups, counterExpired, lastW, lastG>>
    /\ UNCHANGED <<routerVars, limiterVars, readyVars, callVars>>

\* a publisher puts m on telegram_events
PublishToWorker(m) ==
    /\ telegram_events = <<>>
    /\ Len(published) + passed < MaxIntake
    /\ telegram_events' = <<m>>
    /\ UNCHANGED <<gateway_events, nextCid, wslot, gslot, workerAlive, gwAlive,
                   start_time, optimistic_reply, graced, bucket, cleanup_event_counter,
                   audio_content, ongoing_audio_content, video_content, published,
                   passed, cleanups, counterExpired, lastW, lastG>>
    /\ UNCHANGED <<routerVars, limiterVars, readyVars, callVars>>

IntakeNext ==
    \/ \E m \in IntakeGwMsgs : PublishToGateway(m)
    \/ \E m \in IntakeWorkerMsgs : PublishToWorker(m)
    \/ WorkerStep
    \/ \E ok \in BOOLEAN : GatewayStep(ok)

IntakeSpec == FeedInit /\ [][IntakeNext]_vars

\* ---- dependency injection: register and call_with_injected_deps ----

\* objects handed to router.register, and type(instance) of each
Instances == {"ctx1", "ctx2", "app1", "limiter1"}
TypeOf(inst) ==
    CASE inst \in {"ctx1", "ctx2"} -> "ServiceContainer"
      [] inst = "app1" -> "Client"
      [] OTHER -> "FixedWindowRateLimiter"

ParamNames == {"envelope", "ctx", "telegram_app", "rate_limiter"}
Absent == "absent"

\* get_type_hints(fn) of the functions the router calls: the annotated
\* parameters in the order they are declared
Hints(fn) ==
    CASE fn = "correlation_guard_prepare" ->
            <<[name |-> "envelope", type |-> "EventEnvelope"]>>
      [] fn = "handle_reply_command" ->
            <<[name |-> "envelope", type |-> "EventEnvelope"],
              [name |-> "ctx", type |-> "ServiceContainer"],
              [name |-> "telegram_app", type |-> "Client"]>>
      [] fn = "handle_download_cleanup_command" ->
            <<[name |-> "envelope", type |-> "EventEnvelope"],
              [name |-> "ctx", type |-> "ServiceContainer"]>>
      [] OTHER ->
            <<[name |-> "envelope", type |-> "EventEnvelope"],
              [name |-> "ctx", type |-> "ServiceContainer"],
              [name |-> "rate_limiter", type |-> "FixedWindowRateLimiter"]>>

InjectedFns == {"correlation_guard_prepare", "handle_reply_command",
                "handle_download_cleanup_command", "handle_raw_telegram_event"}

\* the keyword arguments a caller passes: dispatch passes the envelope; a
\* direct caller may pass more, or nothing
CallerKwargs ==
    {[n \in ParamNames |-> Absent],
     [n \in ParamNames |-> IF n = "envelope" THEN "envelope1" ELSE Absent],
     [n \in ParamNames |-> IF n = "envelope" THEN "envelope1"
                           ELSE IF n = "ctx" THEN "ctx_of_caller" ELSE Absent]}

\* mutant of InjectOne: the registry instance replaces what the caller passed
InjectOne_Overwrite(kw, param, reg) ==
    IF reg[param.type] # NoInstance
    THEN [kw EXCEPT !.args[param.name] = reg[param.type]]
    ELSE IF kw.args[param.name] # Absent THEN kw
    ELSE [kw EXCEPT !.err = "RuntimeError"]

\* the body of the for loop for one hint
InjectOne(kw, param, reg) ==
    IF kw.args[param.name] # Absent THEN kw
    ELSE IF reg[param.type] # NoInstance
    THEN [kw EXCEPT !.args[param.name] = reg[param.type]]
    ELSE [kw EXCEPT !.err = "RuntimeError"]

\* for name, dep_type in hints.items(): ...; the raise ends the loop
RECURSIVE InjectAll(_, _, _)
InjectAll(kw, hints, reg) ==
    IF hints = <<>> \/ kw.err # "none" THEN kw
    ELSE InjectAll(InjectOne(kw, Head(hints), reg), Tail(hints), reg)

\* call_with_injected_deps(fn, **kwargs): what fn was called with, if it was
call_with_injected_deps(fn, kwargs, reg) ==
    LET kw == InjectAll([args |-> kwargs, err |-> "none"], Hints(fn), reg)
    IN [fn |-> fn, kwargs |-> kwargs, err |-> kw.err,
        invoked |-> kw.err = "none",
        args |-> IF kw.err = "none" THEN kw.args ELSE [n \in ParamNames |-> Absent]]

\* router.register(instance)
Register(inst) ==
    /\ registry' = [registry EXCEPT ![TypeOf(inst)] = inst]
    /\ injObs' = [fn |-> "none"]
    /\ UNCHANGED <<authObs, keyObs, envObs, created, replyVars, replicaVars>>
    /\ UNCHANGED <<routerVars, limiterVars, busVars, readyVars>>

\* await self.call_with_injected_deps(fn, **kwargs)
CallInjected(fn, kwargs) ==
    /\ injObs' = call_with_injected_deps(fn, kwargs, registry)
    /\ UNCHANGED <<registry, authObs, keyObs, envObs, created, replyVars, replicaVars>>
    /\ UNCHANGED <<routerVars, limiterVars, busVars, readyVars>>

InjectNext ==
    \/ \E inst \in Instances : Register(inst)
    \/ \E fn \in InjectedFns, kwargs \in CallerKwargs : CallInjected(fn, kwargs)

InjectSpec == Init /\ [][InjectNext]_vars

\* ---- authentication: the graced chats and Authenticator.is_allowed ----

\* ids handed to is_allowed: the admin, two other users, three chats, and
\* the defaults taken when a message has no sender or no chat
AuthUserIds == {"admin", "u1", "u2", "UnknownUser"}
AuthChats == {"c1", "c2", "c3"}
AuthChatIds == AuthChats \cup {"UnknownChat"}

busRestOfAuth == <<telegram_events, gateway_events, nextCid, wslot, gslot,
                   workerAlive, gwAlive, start_time, optimistic_reply, bucket,
                   cleanup_event_counter, audio_content, ongoing_audio_content,
                   video_content, published, passed, cleanups, counterExpired,
                   lastW, lastG>>

AuthFrame == UNCHANGED <<routerVars, limiterVars, busRestOfAuth, readyVars,
                         registry, injObs, keyObs, envObs, created, replyVars, replicaVars>>

\* a commands.gateway.grace for chat c is handled
HandleGrace(c) ==
    /\ graced' = handle_grace_command(graced, c)
    /\ authObs' = [fn |-> "handle_grace_command", chat_id |-> c]
    /\ AuthFrame

\* a commands.gateway.smite for chat c is handled
HandleSmite(c) ==
    /\ graced' = handle_smite_command(graced, c)
    /\ authObs' = [fn |-> "handle_smite_command", chat_id |-> c]
    /\ AuthFrame

\* ex=WEEK_IN_SECONDS: a week after the grant the key is gone
GraceExpires(c) ==
    /\ c \in graced
    /\ graced' = graced \ {c}
    /\ authObs' = [fn |-> "expire", chat_id |-> c]
    /\ AuthFrame

\* await authenticator.is_allowed(user_id=..., chat_id=..., ctx=ctx)
CallIsAllowed(u, c) ==
    /\ authObs' = [fn |-> "is_allowed", user_id |-> u, chat_id |-> c,
                   result |-> Authenticator_is_allowed(u, c, graced)]
    /\ graced' = graced
    /\ AuthFrame

AuthNext ==
    \/ \E c \in AuthChats : HandleGrace(c)
    \/ \E c \in AuthChats : HandleSmite(c)
    \/ \E c \in AuthChats : GraceExpires(c)
    \/ \E u \in AuthUserIds, c \in AuthChatIds : CallIsAllowed(u, c)

AuthSpec == Init /\ [][AuthNext]_vars

\* ---- the worker's download commands and the staging bucket ----
\* Here a URL is the tuple urlparse makes of it, its host and path are
\* sequences of characters, and an object of the bucket is kept with the
\* key it is stored under and the number of times it was written.

Netlocs == {<<"a", "b">>, <<"A", "b">>}
Paths == {<<>>, <<"/", "v">>, <<"/", "v", "/">>}
Queries == {"", "x=1"}
Fragments == {"", "t"}
Urls == [scheme : {"https"}, netloc : Netlocs, path : Paths, query : Queries,
         fragment : Fragments]
Kinds == {"video", "audio"}

LowerChar(c) == CASE c = "A" -> "a" [] c = "B" -> "b" [] c = "V" -> "v" [] OTHER -> c

\* str.lower()
Lower(str) == [i \in 1..Len(str) |-> LowerChar(str[i])]

\* str.rstrip('/')
RECURSIVE RStripSlash(_)
RStripSlash(str) ==
    IF str # <<>> /\ str[Len(str)] = "/"
    THEN RStripSlash(SubSeq(str, 1, Len(str) - 1))
    ELSE str

\* mutant of get_cleaned_url: the query is kept
get_cleaned_url_KeepQuery(url) ==
    [scheme |-> url.scheme, netloc |-> Lower(url.netloc),
     path |-> RStripSlash(url.path), query |-> url.query, fragment |-> ""]

\* get_cleaned_url(url): the tuple handed to urlunparse
get_cleaned_url(url) ==
    [scheme |-> url.scheme, netloc |-> Lower(url.netloc),
     path |-> RStripSlash(url.path), query |-> "", fragment |-> ""]

\* hashlib.sha256(...).hexdigest(): different texts have different digests
sha256(text) == <<"sha256", text>>

\* hash_url = f'video/{hash_url}' / f'audio/{hash_url}'
hash_url(kind, url) == [prefix |-> kind, digest |-> sha256(get_cleaned_url(url))]

\* mutant of stat_object: every key is reported missing
stat_object_NoSuchKey(objects, key) == FALSE

\* minio.stat_object(bucket_name, hash_url) returns instead of raising
\* S3Error NoSuchKey
stat_object(objects, key) == \E o \in objects : o.key = key

\* mutant of fput_object: the object does not reach the bucket
fput_object_Lost(objects, key) == objects

\* minio.fput_object(bucket_name, object_name=hash_url, ...): the object
\* stored under the key is replaced
fput_object(objects, key) ==
    {o \in objects : o.key # key}
        \cup {[key |-> key,
                puts |-> IF \E o \in objects : o.key = key
                         THEN (CHOOSE o \in objects : o.key = key).puts + 1
                         ELSE 1]}

\* the observations kept: the last two
LastTwo(obs) == IF Len(obs) > 2 THEN SubSeq(obs, Len(obs) - 1, Len(obs)) ELSE obs

\* download_video / download_audio raised DownloadError: no event is published
NoReady == [type |-> "none", object_name |-> [prefix |-> "", digest |-> <<>>]]

busRestOfKey == <<telegram_events, gateway_events, nextCid, wslot, gslot,
                  workerAlive, gwAlive, start_time, optimistic_reply, graced,
                  cleanup_event_counter, audio_content, ongoing_audio_content,
                  video_content, published, passed, cleanups, counterExpired,
                  lastW, lastG>>

\* video_dl_command / audio_dl_command for a message that names url, from
\* the computing of the key to the publishing of the ready event; ok: the
\* download and fput_object both returned (an exception of either leaves the
\* handler before the object is stored and before the publish)
DlCommand(kind, url, ok) ==
    LET key == hash_url(kind, url)
        hit == stat_object(bucket, key)
        n == IF keyObs = <<>> THEN 1 ELSE keyObs[Len(keyObs)].n + 1
    IN /\ n <= MaxCmds
       \* without a download nothing can fail in it
       /\ hit => ok
       /\ bucket' = IF hit \/ ~ok THEN bucket ELSE fput_object(bucket, key)
       /\ keyObs' = LastTwo(Append(keyObs,
                        [n |-> n, kind |-> kind, url |-> url, key |-> key,
                         downloaded |-> ~hit, uploaded |-> ~hit /\ ok,
                         ready |-> IF ok
                                   THEN [type |-> ReadyType(kind), object_name |-> key]
                                   ELSE NoReady]))
       /\ UNCHANGED <<routerVars, limiterVars, busRestOfKey, readyVars,
                      registry, injObs, authObs, envObs, created, replyVars, replicaVars>>

KeyNext == \E kind \in Kinds, url \in Urls, ok \in BOOLEAN : DlCommand(kind, url, ok)

KeySpec == Init /\ [][KeyNext]_vars

\* ---- the envelope on the wire: to_json, json.loads, from_dict, create ----
\* A Python value is a record tagged with its type, a JSON text is the tree
\* of its values tagged with the JSON kind.

PyStr(s) == [py |-> "str", s |-> s]
PyInt(n) == [py |-> "int", n |-> n]
PyBool(b) == [py |-> "bool", b |-> b]
PyNone == [py |-> "NoneType"]
PyDict(f) == [py |-> "dict", d |-> f]
PyList(q) == [py |-> "list", l |-> q]
PyTuple(q) == [py |-> "tuple", t |-> q]

EmptyDict == [k \in {} |-> PyNone]

\* json.dumps: a tuple is written as an array
RECURSIVE dumps(_)
dumps(v) ==
    CASE v.py = "str" -> [j |-> "string", s |-> v.s]
      [] v.py = "int" -> [j |-> "number", n |-> v.n]
      [] v.py = "bool" -> [j |-> "bool", b |-> v.b]
      [] v.py = "NoneType" -> [j |-> "null"]
      [] v.py = "dict" -> [j |-> "object", o |-> [k \in DOMAIN v.d |-> dumps(v.d[k])]]
      [] v.py = "list" -> [j |-> "array", a |-> [i \in DOMAIN v.l |-> dumps(v.l[i])]]
      [] OTHER -> [j |-> "array", a |-> [i \in DOMAIN v.t |-> dumps(v.t[i])]]

\* json.loads: an array is read as a list
RECURSIVE loads(_)
loads(t) ==
    CASE t.j = "string" -> PyStr(t.s)
      [] t.j = "number" -> PyInt(t.n)
      [] t.j = "bool" -> PyBool(t.b)
      [] t.j = "null" -> PyNone
      [] t.j = "object" -> PyDict([k \in DOMAIN t.o |-> loads(t.o[k])])
      [] OTHER -> PyList([i \in DOMAIN t.a |-> loads(t.a[i])])

\* to_json: json.dumps(asdict(self), indent=2); e is the record of the six
\* fields
to_json(e) == dumps(PyDict(e))

\* d.get(key, default)
DictGet(d, key, default) == IF key \in DOMAIN d.d THEN d.d[key] ELSE default

\* int(x)
PyIntOf(x) ==
    CASE x.py = "int" -> [err |-> "none", v |-> PyInt(x.n)]
      [] x.py = "bool" -> [err |-> "none", v |-> PyInt(IF x.b THEN 1 ELSE 0)]
      [] x.py = "str" -> IF x.s = "2" THEN [err |-> "none", v |-> PyInt(2)]
                         ELSE [err |-> "ValueError", v |-> PyNone]
      [] OTHER -> [err |-> "TypeError", v |-> PyNone]

NoEnvelope == [type |-> PyNone, version |-> PyNone, correlation_id |-> PyNone,
               timestamp |-> PyNone, payload |-> PyNone, is_rate_limited |-> PyNone]

\* mutant of from_dict: the version is not read from the dict
from_dict_Version1(d) ==
    IF d.py # "dict" THEN [err |-> "AttributeError", env |-> NoEnvelope]
    ELSE [err |-> "none",
          env |-> [type |-> DictGet(d, "type", PyStr("")),
                   version |-> PyInt(1),
                   correlation_id |-> DictGet(d, "correlation_id", PyStr("")),
                   timestamp |-> DictGet(d, "timestamp", PyStr("")),
                   payload |-> DictGet(d, "payload", PyDict(EmptyDict)),
                   is_rate_limited |-> DictGet(d, "is_rate_limited", PyBool(FALSE))]]

\* EventEnvelope.from_dict(d); d is what json.loads returned, and d.get of
\* a value that is no dict raises AttributeError
from_dict(d) ==
    IF d.py # "dict" THEN [err |-> "AttributeError", env |-> NoEnvelope]
    ELSE LET version == PyIntOf(DictGet(d, "version", PyInt(1)))
         IN IF version.err # "none" THEN [err |-> version.err, env |-> NoEnvelope]
            ELSE [err |-> "none",
                  env |-> [type |-> DictGet(d, "type", PyStr("")),
                           version |-> version.v,
                           correlation_id |-> DictGet(d, "correlation_id", PyStr("")),
                           timestamp |-> DictGet(d, "timestamp", PyStr("")),
                           payload |-> DictGet(d, "payload", PyDict(EmptyDict)),
                           is_rate_limited |->
                               DictGet(d, "is_rate_limited", PyBool(FALSE))]]

\* EventEnvelope.from_dict(json.loads(body))
from_wire(text) == from_dict(loads(text))

\* payloads: of a chat message, nested, with a list, and one holding a tuple
WirePayloads ==
    {PyDict(EmptyDict),
     PyDict([k \in {"text"} |-> PyStr(".adl")]),
     PyDict([k \in {"text", "id"} |-> IF k = "text" THEN PyStr("x") ELSE PyInt(7)]),
     PyDict([k \in {"chat"} |-> PyDict([i \in {"id"} |-> PyInt(5)])]),
     PyDict([k \in {"entities"} |-> PyList(<<PyInt(1), PyNone>>)]),
     PyDict([k \in {"entities"} |-> PyTuple(<<PyInt(1), PyNone>>)])}

\* envelopes a service serializes
WireEnvelopes ==
    [type : {PyStr("events.telegram.raw"), PyStr("")},
     version : {PyInt(1), PyInt(2)},
     correlation_id : {PyStr("c1"), PyStr("")},
     timestamp : {PyStr("2025-01-01T00:00:00+00:00"), PyStr("")},
     payload : WirePayloads,
     is_rate_limited : {PyBool(TRUE), PyBool(FALSE)}]

\* the keys of a JSON object left out or replaced
WireObject(keys, type, cid, version) ==
    [j |-> "object",
     o |-> [k \in keys |->
              CASE k = "type" -> [j |-> "string", s |-> type]
                [] k = "correlation_id" -> [j |-> "string", s |-> cid]
                [] k = "version" -> version
                [] k = "timestamp" -> [j |-> "string", s |-> "t"]
                [] k = "payload" -> [j |-> "object", o |-> EmptyDict]
                [] OTHER -> [j |-> "bool", b |-> TRUE]]]

AllKeys == {"type", "correlation_id", "version", "timestamp", "payload",
            "is_rate_limited"}

\* JSON texts a consumer may be handed
WireDocs ==
    {[j |-> "array", a |-> <<>>],
     [j |-> "string", s |-> "x"],
     [j |-> "null"]}
    \cup {WireObject(AllKeys \ drop, type, cid, version) :
             drop \in {{}, {"version"}, {"is_rate_limited"}, {"type"},
                       {"correlation_id"}},
             type \in {"events.telegram.raw", ""},
             cid \in {"c1", ""},
             version \in {[j |-> "number", n |-> 1], [j |-> "number", n |-> 0],
                          [j |-> "string", s |-> "2"], [j |-> "null"]}}

\* an envelope is serialized by one service and parsed by the other
SendOverWire(e) ==
    /\ \E wire \in {to_json(e)} :
          envObs' = [fn |-> "round_trip", sent |-> e, wire |-> wire,
                     got |-> from_wire(wire)]
    /\ UNCHANGED <<registry, injObs, authObs, keyObs, created, replyVars, replicaVars>>
    /\ UNCHANGED <<routerVars, limiterVars, busVars, readyVars>>

\* a consumer parses a body it was handed
ParseWire(text) ==
    /\ envObs' = [fn |-> "from_wire", wire |-> text, got |-> from_wire(text)]
    /\ UNCHANGED <<registry, injObs, authObs, keyObs, created, replyVars, replicaVars>>
    /\ UNCHANGED <<routerVars, limiterVars, busVars, readyVars>>

\* uuid.uuid4(): the n-th id drawn in the process; no two are the same
Uuid4(n) == n

\* EventEnvelope.create(type=..., payload=...), with correlation_id=
\* str(uuid.uuid4()) passed by the caller or left to the default, which was
\* evaluated once, when the function was defined
Create(type, passes_cid) ==
    /\ Len(created.made) < MaxCreate
    /\ created' =
          [uuids |-> IF passes_cid THEN created.uuids + 1 ELSE created.uuids,
           made |-> Append(created.made,
                       [type |-> type, passes_cid |-> passes_cid,
                        correlation_id |-> IF passes_cid
                                           THEN Uuid4(created.uuids + 1)
                                           ELSE Uuid4(1),
                        version |-> 1, is_rate_limited |-> FALSE])]
    /\ UNCHANGED <<registry, injObs, authObs, keyObs, envObs, replyVars, replicaVars>>
    /\ UNCHANGED <<routerVars, limiterVars, busVars, readyVars>>

EnvelopeNext ==
    \/ \E e \in WireEnvelopes : SendOverWire(e)
    \/ \E text \in WireDocs : ParseWire(text)
    \/ \E passes_cid \in BOOLEAN : Create("events.telegram.raw", passes_cid)

EnvelopeSpec == Init /\ [][EnvelopeNext]_vars

\* ---- the optimistic reply record ----
\* src/gateway/src/handlers/reply_command.py writes the hash
\* correlation_id:{id}:optimistic_reply, optimistic_reply_cleanup in
\* src/gateway/src/telegram_message_helper.py reads and deletes it.

\* a field value as the cache answers it
PyBytes(s) == [py |-> "bytes", s |-> s]

\* the texts int() accepts, with the number each denotes
IntTexts == {"5", "11", "12"}
IntOf(text) == CASE text = "5" -> 5 [] text = "11" -> 11 [] text = "12" -> 12

\* str(n), as hset stores an integer
StrOf(n) == CASE n = 5 -> "5" [] n = 11 -> "11" [] n = 12 -> "12"

\* safe_int(value)
safe_int(value) ==
    IF value = None THEN None
    ELSE IF value.s \in IntTexts THEN PyInt(IntOf(value.s))
    ELSE None

\* mutant of BothPresent: one field is enough
BothPresent_Either(message_id, chat_id) == message_id # None \/ chat_id # None

\* if message_id is not None and chat_id is not None
BothPresent(message_id, chat_id) == message_id # None /\ chat_id # None

\* the chat of the conversation and the id Telegram gives the reply to the
\* message with correlation id c
ReplyChat == 5
ReplyMessageId(c) == 10 + c

\* reply_command_handler with persistence_key 'optimistic_reply': the reply
\* is sent and its ids are stored
ReplyHandled(c) ==
    /\ chat_log' = chat_log \cup {<<PyInt(ReplyChat), PyInt(ReplyMessageId(c))>>}
    /\ reply_record' = [reply_record EXCEPT ![c] =
                           [message_id |-> PyBytes(StrOf(ReplyMessageId(c))),
                            chat_id |-> PyBytes(StrOf(ReplyChat))]]
    /\ cleanObs' = [cleanObs EXCEPT !.fn = "none"]

\* another client of the cache removes a field of the hash or overwrites it
\* with a text that is no number
CacheWrite(c, field, value) ==
    /\ reply_record[c][field] # value
    /\ reply_record' = [reply_record EXCEPT ![c][field] = value]
    /\ cleanObs' = [cleanObs EXCEPT !.fn = "none"]
    /\ UNCHANGED chat_log

\* optimistic_reply_cleanup(ctx, telegram_app) while the correlation id is c
optimistic_reply_cleanup(c) ==
    LET message_id == safe_int(reply_record[c].message_id)
        chat_id == safe_int(reply_record[c].chat_id)
        found == BothPresent(message_id, chat_id)
    IN /\ chat_log' = IF found THEN chat_log \ {<<chat_id, message_id>>} ELSE chat_log
       /\ reply_record' = IF found THEN [reply_record EXCEPT ![c] = NoReplyRecord]
                                   ELSE reply_record
       /\ cleanObs' = [fn |-> "cleanup", cid |-> c,
                       deleted |-> IF found THEN <<<<chat_id, message_id>>>> ELSE <<>>,
                       turn |-> 1 - cleanObs.turn,
                       again |-> /\ cleanObs.fn = "cleanup"
                                 /\ cleanObs.cid = c
                                 /\ cleanObs.deleted # <<>>]

CleanupFrame ==
    UNCHANGED <<routerVars, limiterVars, busVars, readyVars, registry, injObs,
                authObs, keyObs, envObs, created, replicaVars>>

CleanupNext ==
    \/ \E c \in ReplyCids : ReplyHandled(c) /\ CleanupFrame
    \/ \E c \in ReplyCids, field \in {"message_id", "chat_id"},
          value \in {None, PyBytes("x")} : CacheWrite(c, field, value) /\ CleanupFrame
    \/ \E c \in ReplyCids : optimistic_reply_cleanup(c) /\ CleanupFrame

CleanupSpec == Init /\ [][CleanupNext]_vars

\* ---- worker replicas and the rate limit ----
\* The raw-event branch of src/media-pirate/main.py, from one await to the
\* next, run by every replica on the deliveries it gets; all within one
\* window.

\* is_not_rate_limited = await rate_limiter.is_allowed(data["from_user_id"]),
\* for a raw event of user u that names a media command; a rate-limited
\* request is answered and the replica goes on with its next delivery
ReplicaCheck(r, u) ==
    /\ replica[r].pc = "idle"
    /\ replica' = [replica EXCEPT ![r] =
                      IF is_allowed(rate_limit, now, u)
                      THEN [pc |-> "publish", user |-> u]
                      ELSE ReplicaIdle]
    /\ wasDenied' = [wasDenied EXCEPT ![u] = @ \/ ~is_allowed(rate_limit, now, u)]
    /\ UNCHANGED <<now, rate_limit, calls, lobs, admitted>>

\* await ctx.safe_publish(routing_key='telegram_events', body=event_as_json)
ReplicaPublish(r) ==
    /\ replica[r].pc = "publish"
    /\ admitted' = [admitted EXCEPT ![replica[r].user] = @ + 1]
    /\ replica' = [replica EXCEPT ![r].pc = "increment"]
    /\ UNCHANGED limiterVars

\* after_tg_event_handling: await rate_limiter.increment(user_id=user_id)
ReplicaIncrement(r) ==
    /\ replica[r].pc = "increment"
    /\ rate_limit' = Incremented(rate_limit, now, replica[r].user)
    /\ calls' = [calls EXCEPT ![replica[r].user] = @ + 1]
    /\ replica' = [replica EXCEPT ![r] = ReplicaIdle]
    /\ UNCHANGED <<now, wasDenied, lobs, admitted>>

ReplicaFrame ==
    UNCHANGED <<routerVars, busVars, readyVars, registry, injObs, authObs, keyObs,
                envObs, created, replyVars>>

ReplicaNext ==
    \/ \E r \in WorkerReplicas, u \in Users : ReplicaCheck(r, u) /\ ReplicaFrame
    \/ \E r \in WorkerReplicas : ReplicaPublish(r) /\ ReplicaFrame
    \/ \E r \in WorkerReplicas : ReplicaIncrement(r) /\ ReplicaFrame

ReplicaSpec == Init /\ [][ReplicaNext]_vars

----------------------------------------------------------------------------
(* Properties of the bus *)

\* the raw event at the head of telegram_events names a command of the worker
\* and comes from a user whose counter of the current window has reached
\* max_requests
LimitedRawAtHead ==
    /\ telegram_events # <<>>
    /\ Head(telegram_events).type = "events.telegram.raw"
    /\ Head(telegram_events).cid # 0
    /\ WorkerCommandToEvent(Head(telegram_events).cmd) # ""
    /\ RedisGet(rate_limit, now, Head(telegram_events).user) >= MaxRequests

\* C6: when the worker handles a raw event with a recognised command from a
\* user whose counter has reached max_requests, it publishes exactly one
\* envelope, a commands.gateway.reply ("too many requests") to gateway_events,
\* and nothing else happens: no command event is put on telegram_events, the
\* counter is not incremented, no optimistic reply is published and nothing is
\* downloaded.
C6_RateLimitedRaw ==
    [][(LimitedRawAtHead /\ WorkerStep) =>
        LET m == Head(telegram_events)
            reply == Reply(m.cid, "too_many", m.cid)
        IN /\ published' = Append(published, Pub("gateway_events", reply))
           /\ gateway_events' = Append(gateway_events, reply)
           /\ telegram_events' = Tail(telegram_events)
           /\ rate_limit' = rate_limit
           /\ bucket' = bucket]_vars

\* the worker has just turned a raw event away and its reply is the last
\* envelope published
C6_Witness ==
    /\ lastW.outcome = "rate_limited"
    /\ published # <<>>
    /\ published[Len(published)] =
           Pub("gateway_events", Reply(lastW.cid, "too_many", lastW.cid))

\* how a step of the worker ended without an exception
WorkerCompleted == lastW.outcome \notin {"none", "invalid_json", "ValueError",
                                          "RuntimeError"}

\* C8: after a dispatch that completes successfully the consumer's slot holds
\* the correlation id of the envelope that was dispatched and equals the
\* snapshot taken before the handler; a dispatch whose slot differs from the
\* snapshot at validation does not complete but fails with the context
\* corruption error.  The same holds of the worker's check at the end of a step.
C8_CorrelationGuard ==
    /\ lastG.outcome = "ok" =>
          /\ get_correlation_id(gslot) = lastG.cid
          /\ lastG.snapshot = lastG.cid
    /\ (lastG.type \in GwRouted /\ lastG.cid # 0 /\ lastG.snapshot # gslot) =>
          lastG.outcome = "RuntimeError"
    /\ WorkerCompleted => get_correlation_id(wslot) = lastW.cid

\* a dispatch completed for an envelope whose correlation id differs from the
\* one the slot held before
C8_Witness ==
    /\ lastG.outcome = "ok"
    /\ lastG.prev \notin {0, lastG.cid}
    /\ gslot = lastG.cid
    /\ lastG.snapshot = lastG.cid

CleanupType == "commands.gateway.downloads-cleanup"

\* C9 as stated: every envelope published while a parent envelope is being
\* processed carries the parent's correlation id, the downloads-cleanup
\* command included.
C9_AllChildrenInherit ==
    \A k \in 1..Len(published) :
        published[k].m.parent # 0 => published[k].m.cid = published[k].m.parent

\* C9: every envelope published while a parent envelope is being processed
\* carries the parent's correlation id (commands mapped from raw events,
\* replies, ready events, message updates and re-published ready events),
\* except the downloads-cleanup command, which carries a correlation id minted
\* for it that no other envelope carries.
C9_ChildrenInheritButCleanup ==
    \A k \in 1..Len(published) :
        published[k].m.parent # 0 =>
            IF published[k].m.type = CleanupType
            THEN \A j \in 1..Len(published) :
                    j # k => /\ published[j].m.cid # published[k].m.cid
                             /\ published[j].m.parent # published[k].m.cid
            ELSE published[k].m.cid = published[k].m.parent

\* one dispatch published both a command mapped from a raw event and a
\* downloads-cleanup command
C9_Witness ==
    \E j, k \in 1..Len(published) :
        /\ published[j].m.type = "commands.gateway.grace"
        /\ published[j].m.cid = published[j].m.parent
        /\ published[k].m.type = CleanupType
        /\ published[k].m.parent = published[j].m.parent

\* the last envelope published is the downloads-cleanup command with max_delete
LastIsCleanup(n) ==
    /\ published # <<>>
    /\ published[Len(published)].q = "gateway_events"
    /\ published[Len(published)].m.type = CleanupType
    /\ published[Len(published)].m.max_delete = n

\* C10 as stated: once exactly 100 events have passed through
\* cleanup_counter_increment, starting from an absent counter, exactly one
\* downloads-cleanup command (max_delete = 100) has been published and the
\* counter is reset; none is published before the 100th event; the counter is
\* never left at 100 or more.
C10_EveryHundredEvents ==
    /\ passed < CleanupThreshold => cleanups = 0
    /\ passed = CleanupThreshold =>
          cleanups = 1 /\ cleanup_event_counter = 0 /\ LastIsCleanup(100)
    /\ cleanup_event_counter < CleanupThreshold

\* C10: as long as the counter key has not run out of its TTL (no day without
\* an event), the counter equals the number of events passed until the 100th,
\* on which exactly one downloads-cleanup command (max_delete = 100) is
\* published and the counter reset; none is published before; in every case
\* the counter is never left at 100 or more.
C10_HundredEventsWithinTTL ==
    /\ ~counterExpired =>
          /\ passed < CleanupThreshold =>
                cleanups = 0 /\ cleanup_event_counter = passed
          /\ passed = CleanupThreshold =>
                cleanups = 1 /\ cleanup_event_counter = 0 /\ LastIsCleanup(100)
    /\ cleanup_event_counter < CleanupThreshold

\* the 100th event has just passed and the sweep was ordered
C10_Witness ==
    /\ passed = CleanupThreshold
    /\ ~counterExpired
    /\ cleanups = 1
    /\ cleanup_event_counter = 0
    /\ LastIsCleanup(100)

\* ---- deliveries the loops turn away ----

GatewayCacheVars == <<start_time, optimistic_reply, graced, cleanup_event_counter,
                      audio_content, ongoing_audio_content, video_content>>

NoCidAtGateway ==
    /\ gateway_events # <<>>
    /\ Head(gateway_events).type # "malformed"
    /\ Head(gateway_events).cid = 0

\* an envelope without a correlation id is next on telegram_events
NoCidAtWorker ==
    /\ telegram_events # <<>>
    /\ Head(telegram_events).type # "malformed"
    /\ Head(telegram_events).cid = 0

\* C12: a delivery that decodes but carries no correlation id stops the
\* consumer that took it: for that message nothing is published, no key is
\* written, no middleware or handler runs and the slot is not set; and a
\* consumer that has stopped never runs again, it takes no later message off
\* its queue.
C12_MissingCorrelationIdFatal ==
    [][/\ (NoCidAtGateway /\ \E ok \in BOOLEAN : GatewayStep(ok))
          => /\ ~gwAlive'
             /\ published' = published
             /\ telegram_events' = telegram_events
             /\ GatewayCacheVars' = GatewayCacheVars
             /\ passed' = passed
             /\ gslot' = gslot
             /\ lastG'.outcome = "ValueError"
       /\ (NoCidAtWorker /\ WorkerStep)
          => /\ ~workerAlive'
             /\ published' = published
             /\ gateway_events' = gateway_events
             /\ rate_limit' = rate_limit
             /\ bucket' = bucket
             /\ wslot' = wslot
             /\ lastW'.outcome = "ValueError"
       /\ ~gwAlive
          => /\ ~gwAlive'
             /\ lastG' = lastG
             /\ gslot' = gslot
             /\ GatewayCacheVars' = GatewayCacheVars
             /\ Len(gateway_events') >= Len(gateway_events)
       /\ ~workerAlive
          => /\ ~workerAlive'
             /\ lastW' = lastW
             /\ wslot' = wslot
             /\ bucket' = bucket
             /\ Len(telegram_events') >= Len(telegram_events)]_vars

\* both consumers have stopped at an envelope without a correlation id, and
\* a later delivery waits on each queue
C12_Witness ==
    /\ ~gwAlive
    /\ ~workerAlive
    /\ lastG.outcome = "ValueError"
    /\ lastW.outcome = "ValueError"
    /\ gateway_events # <<>>
    /\ telegram_events # <<>>

\* an envelope with a correlation id and a route is next on gateway_events
RoutedAtGateway ==
    /\ gateway_events # <<>>
    /\ Decodes(Head(gateway_events))
    /\ HasCorrelationId(Head(gateway_events))
    /\ Head(gateway_events).type \in GwRouted

\* C13: whenever the gateway loop dispatches an envelope that has a route,
\* the message is acknowledged and the loop stays alive for the next
\* delivery, whether dispatch returned or a middleware or handler failed.
C13_AckAndContinue ==
    [][(RoutedAtGateway /\ \E ok \in BOOLEAN : GatewayStep(ok))
          => /\ gwAlive'
             /\ lastG'.type = Head(gateway_events).type]_vars

\* ---- the middleware namespace ----

\* how often name n occurs in list l
Occurrences(l, n) == Cardinality({i \in 1..Len(l) : l[i] = n})

\* C14: the three register calls share one namespace: a callable bound to a
\* name stays bound to it whatever is registered later, a name enters the
\* global before and after lists at most once in all, and a registration
\* turned away as a duplicate fails with MiddlewareRegistrationError and
\* leaves the map and both lists as they were; this for every order of the
\* name-taking and the function-taking calls.
C14_OneNamespace ==
    [][/\ \A n \in Names :
             middlewares[n] # NoFunc => middlewares'[n] = middlewares[n]
       /\ \A n \in Names :
             Occurrences(middlewares_before', n) + Occurrences(middlewares_after', n) <= 1
       /\ (lastOp' = "register_name" /\ err' # "none")
             => /\ err' = "MiddlewareRegistrationError"
                /\ middlewares' = middlewares
                /\ middlewares_before' = middlewares_before
                /\ middlewares_after' = middlewares_after]_vars

\* ---- dependency injection ----

\* the parameters of the observed call the caller left out
ToInject == {i \in 1..Len(Hints(injObs.fn)) :
                injObs.kwargs[Hints(injObs.fn)[i].name] = Absent}

C16_AdminOrGraced ==
    authObs.fn = "is_allowed" =>
        IF authObs.user_id \in {"UnknownUser"} \/ authObs.chat_id \in {"UnknownChat"}
        THEN authObs.result = FALSE
        ELSE authObs.result = (authObs.user_id = "admin" \/ authObs.chat_id \in graced)

\* a user who is not the admin was let in by the key of the chat while
\* another chat has none
C16_Witness ==
    /\ authObs.fn = "is_allowed"
    /\ authObs.user_id = "u1"
    /\ authObs.chat_id = "c2"
    /\ authObs.result
    /\ graced = {"c2", "c3"}

\* C17: once a grace for chat c is handled the key of c is in the cache, and
\* it leaves the cache only when it expires or a smite for c is handled;
\* while it is there every user with a numeric id who is not the admin
\* passes is_allowed in chat c. Once a smite for c is handled the key is
\* gone, only a grace for c brings it back, and while it is gone nobody but
\* the admin passes in chat c.
C17_GraceUntilSmite ==
    [][\A c \in AuthChats :
          /\ HandleGrace(c) => c \in graced'
          /\ HandleSmite(c) => c \notin graced'
          /\ (c \in graced /\ c \notin graced')
                => authObs'.chat_id = c
                   /\ authObs'.fn \in {"handle_smite_command", "expire"}
          /\ (c \notin graced /\ c \in graced')
                => authObs'.chat_id = c /\ authObs'.fn = "handle_grace_command"
          /\ \A u \in AuthUserIds \ {"admin", "UnknownUser"} :
                CallIsAllowed(u, c) => (authObs'.result <=> c \in graced)
          /\ CallIsAllowed("admin", c) => authObs'.result]_vars

\* chat c1 holds a grant, chat c2 does not, and a user who is not the admin
\* has just passed in c1
C17_Witness ==
    /\ authObs.fn = "is_allowed"
    /\ authObs.user_id = "u2"
    /\ authObs.chat_id = "c1"
    /\ authObs.result
    /\ graced = {"c1", "c3"}

\* ---- who can grant and revoke ----

AdminOnlyTypes == {"events.telegram.raw", "commands.gateway.grace",
                   "commands.gateway.smite"}

\* C18: a raw chat event on gateway_events is always one the admin wrote, so
\* is every grace and smite command there, and the set of graced chats only
\* changes while the gateway handles a grace or smite command that stems from
\* a message of the admin; a message of another user, also one sent in a
\* graced chat, never gets there.
C18_OnlyAdminGrants ==
    [][/\ \A i \in 1..Len(gateway_events') :
             gateway_events'[i].type \in AdminOnlyTypes
                => gateway_events'[i].user = "admin"
       /\ graced' # graced
             => /\ gateway_events # <<>>
                /\ Head(gateway_events).type \in {"commands.gateway.grace",
                                                   "commands.gateway.smite"}
                /\ Head(gateway_events).user = "admin"
                /\ \E ok \in BOOLEAN : GatewayStep(ok)]_vars

\* a user of the graced chat sent .grace, which went to the worker only, and
\* the chat lost its grant through the admin's .smite
C18_Witness ==
    /\ \E i \in 1..Len(published) :
          /\ published[i].m.type = "events.telegram.raw"
          /\ published[i].m.user = "u1"
          /\ published[i].m.cmd = ".grace"
          /\ published[i].q = "telegram_events"
    /\ lastG.type = "commands.gateway.smite"
    /\ lastG.outcome = "ok"
    /\ graced = {}

\* ---- content-addressed staging ----

\* p and q are one path followed by any number of slashes
SlashVariants(p, q) ==
    \E n \in 0..Len(p) :
        /\ n <= Len(q)
        /\ SubSeq(p, 1, n) = SubSeq(q, 1, n)
        /\ \A i \in (n + 1)..Len(p) : p[i] = "/"
        /\ \A i \in (n + 1)..Len(q) : q[i] = "/"

\* s and t are the same host but for the case of letters
CaseVariants(s, t) ==
    /\ Len(s) = Len(t)
    /\ \A i \in 1..Len(s) :
          s[i] = t[i] \/ <<s[i], t[i]>> \in {<<"a", "A">>, <<"A", "a">>,
                                               <<"b", "B">>, <<"B", "b">>}

\* the URLs differ at most in query, fragment, case of the host and
\* trailing slashes
NoiseOnly(u1, u2) ==
    /\ u1.scheme = u2.scheme
    /\ CaseVariants(u1.netloc, u2.netloc)
    /\ SlashVariants(u1.path, u2.path)

\* C19: two download commands of one kind whose URLs differ only in query,
\* fragment, case of the host or trailing slashes of the path compute the
\* same object key and their ready events point at that one object; a video
\* command and an audio command never have the same key.
C19_SameKeyForSameContent ==
    \A i, j \in 1..Len(keyObs) :
        /\ (keyObs[i].kind = keyObs[j].kind /\ NoiseOnly(keyObs[i].url, keyObs[j].url))
              => /\ keyObs[i].key = keyObs[j].key
                 /\ (keyObs[i].ready # NoReady /\ keyObs[j].ready # NoReady)
                       => /\ keyObs[i].ready = keyObs[j].ready
                          /\ keyObs[i].ready.object_name = keyObs[i].key
        /\ keyObs[i].kind # keyObs[j].kind => keyObs[i].key # keyObs[j].key

\* two audio commands whose URLs differ in all four ways were handled, and
\* the bucket holds the one object
C19_Witness ==
    /\ Len(keyObs) = 2
    /\ keyObs[1].kind = "audio"
    /\ keyObs[2].kind = "audio"
    /\ keyObs[1].url = [scheme |-> "https", netloc |-> <<"a", "b">>,
                         path |-> <<"/", "v">>, query |-> "", fragment |-> ""]
    /\ keyObs[2].url = [scheme |-> "https", netloc |-> <<"A", "b">>,
                         path |-> <<"/", "v", "/">>, query |-> "x=1", fragment |-> "t"]
    /\ keyObs[1].key = keyObs[2].key
    /\ keyObs[1].ready = keyObs[2].ready
    /\ keyObs[2].ready.type = "events.dl.audio.ready"
    /\ Cardinality(bucket) = 1

\* C20: a download command whose object key is already in the bucket
\* publishes its ready event without downloading and without uploading, and
\* the bucket is left as it was.
C20_HitSkipsDownload ==
    [][LET obs == keyObs'[Len(keyObs')]
       IN (/\ keyObs' # keyObs
           /\ \E o \in bucket : o.key = hash_url(obs.kind, obs.url)
           /\ \E ok \in BOOLEAN : DlCommand(obs.kind, obs.url, ok))
             => /\ bucket' = bucket
                /\ ~obs.downloaded
                /\ ~obs.uploaded
                /\ obs.ready = [type |-> ReadyType(obs.kind),
                                 object_name |-> hash_url(obs.kind, obs.url)]]_vars

\* the second command found the object the first one had stored from
\* another spelling of the URL, and the object was written once
C20_Witness ==
    /\ Len(keyObs) = 2
    /\ keyObs[1].uploaded
    /\ ~keyObs[2].downloaded
    /\ ~keyObs[2].uploaded
    /\ keyObs[2].ready.type = "events.dl.video.ready"
    /\ keyObs[1].url # keyObs[2].url
    /\ bucket = {[key |-> keyObs[2].key, puts |-> 1]}

\* ---- the envelope on the wire ----

\* no tuple anywhere in the value: JSON has a kind for everything in it
RECURSIVE JsonCompatible(_)
JsonCompatible(v) ==
    CASE v.py = "tuple" -> FALSE
      [] v.py = "dict" -> \A k \in DOMAIN v.d : JsonCompatible(v.d[k])
      [] v.py = "list" -> \A i \in DOMAIN v.l : JsonCompatible(v.l[i])
      [] OTHER -> TRUE

\* C21: an envelope with a type, a correlation id and a payload JSON can
\* express comes back from the wire equal in all six fields.
C21_RoundTrip ==
    (/\ envObs.fn = "round_trip"
     /\ envObs.sent.type # PyStr("")
     /\ envObs.sent.correlation_id # PyStr("")
     /\ JsonCompatible(envObs.sent.payload))
        => /\ envObs.got.err = "none"
           /\ \A f \in AllKeys : envObs.got.env[f] = envObs.sent[f]

\* a rate-limited version 2 envelope with a nested payload went over the wire
C21_Witness ==
    /\ envObs.fn = "round_trip"
    /\ envObs.sent.type = PyStr("events.telegram.raw")
    /\ envObs.sent.correlation_id = PyStr("c1")
    /\ envObs.sent.version = PyInt(2)
    /\ envObs.sent.is_rate_limited = PyBool(TRUE)
    /\ envObs.sent.payload = PyDict([k \in {"chat"} |-> PyDict([i \in {"id"} |-> PyInt(5)])])
    /\ envObs.got.env = envObs.sent

\* what the consumer was handed is a JSON object
IsObject(text) == text.j = "object"

\* the text of key k in the object, "" when it is left out or no string
TextOf(text, k) ==
    IF k \in DOMAIN text.o /\ text.o[k].j = "string" THEN text.o[k].s ELSE ""

\* C22: from_wire reads a missing version as 1 and a missing is_rate_limited
\* as false, fails with MalformedEnvelope when the text is no JSON object or
\* type or correlation_id is empty, and so returns only envelopes with a
\* type, a correlation id and a version of at least 1.
C22_FromWireValidates ==
    envObs.fn = "from_wire" =>
        LET text == envObs.wire
            got == envObs.got
        IN /\ (~IsObject(text) \/ TextOf(text, "type") = ""
                               \/ TextOf(text, "correlation_id") = "")
                 => got.err = "MalformedEnvelope"
           /\ got.err = "none"
                 => /\ got.env.type # PyStr("")
                    /\ got.env.correlation_id # PyStr("")
                    /\ got.env.version.n >= 1
                    /\ "version" \notin DOMAIN text.o => got.env.version = PyInt(1)
                    /\ "is_rate_limited" \notin DOMAIN text.o
                          => got.env.is_rate_limited = PyBool(FALSE)

\* C23: two calls of create that pass no correlation_id never return
\* envelopes with the same correlation id.
C23_FreshCorrelationId ==
    \A i, j \in 1..Len(created.made) :
        (i # j /\ ~created.made[i].passes_cid /\ ~created.made[j].passes_cid)
           => created.made[i].correlation_id # created.made[j].correlation_id

\* ---- payloads forwarded between services ----

\* C24: no envelope published by a service carries an in-process control
\* flag in its payload: a forwarded payload is the payload that came from the
\* wire.
C24_NoControlFlagsOnWire ==
    \A i \in 1..Len(published) : published[i].m.flags = {}


ReadyTypes == {"events.dl.video.ready", "events.dl.audio.ready"}

\* C25: a ready event is only ever published onto gateway_events, the queue
\* the gateway consumes, so a deferred one comes back to a ready handler and
\* the worker never receives (and drops) one.
C25_DeferredBackToGateway ==
    /\ \A i \in 1..Len(published) :
          published[i].m.type \in ReadyTypes => published[i].q = "gateway_events"
    /\ lastW.type \notin ReadyTypes


\* C26: of two runs of the video ready handler for the same object that were
\* in progress together, at most one uploads the video to Telegram.
C26_VideoUploadedOnce ==
    \A i, j \in Invocations :
        (i # j /\ {i, j} \in overlapped /\ inv[i].obj = inv[j].obj)
            => ~(inv[i].fid # 0 /\ inv[j].fid # 0)


\* C27: whenever the worker's handling of a download command ended in a
\* DownloadError, a commands.gateway.message-update for that correlation id
\* has been published onto gateway_events and the worker went on consuming.
C27_DownloadErrorNotifies ==
    lastW.outcome = "DownloadError" =>
        /\ workerAlive
        /\ \E i \in 1..Len(published) :
              /\ published[i].q = "gateway_events"
              /\ published[i].m.type = "commands.gateway.message-update"
              /\ published[i].m.cid = lastW.cid
              /\ published[i].m.text = "unsupported"


\* C28: a message whose sender is not the admin, in a chat that is not graced,
\* is dropped by the ingress: nothing is published to either queue, no
\* start_time is written and no rate limit counter changes.
C28_UnauthenticatedDropped ==
    [][\A i \in IngressInputs :
          (Ingress(i[1], i[2], i[3]) /\ i[1] # "admin" /\ TheChat \notin graced)
             => UNCHANGED <<telegram_events, gateway_events, published, start_time,
                            rate_limit, calls>>]_vars

\* the first message came from a sender who is not let in and left no trace
C28_Witness ==
    /\ nextCid = 2
    /\ graced = {}
    /\ published = <<>>
    /\ start_time = {}
    /\ telegram_events = <<>>
    /\ gateway_events = <<>>


\* ---- rate limit accounting ----

MediaCommands == {"commands.media.video_download", "commands.media.audio_download"}

\* how many media commands of user u the worker has admitted: the commands
\* it published onto its own queue
Admitted(pubs, u) ==
    Cardinality({i \in 1..Len(pubs) : /\ pubs[i].q = "telegram_events"
                                      /\ pubs[i].m.type \in MediaCommands
                                      /\ pubs[i].m.user = u})

\* C29: in every step, a user's counter of the current window rises by the
\* number of that user's media commands the worker admitted in the step
\* (one per handled command), and no other counter changes: ingress steps,
\* gateway steps, messages without a recognised command and rate-limited
\* requests leave every counter as it was.
C29_CounterCountsAdmitted ==
    [][\A u \in Users, w \in WindowStarts :
          Live(rate_limit'[u][w], now').val - Live(rate_limit[u][w], now).val =
              IF w = WindowStart(now)
              THEN Admitted(published', u) - Admitted(published, u)
              ELSE 0]_vars

\* a user's admitted command brought the counter to the limit and the next
\* request of the same user was turned away
C29_Witness ==
    /\ lastW.outcome = "rate_limited"
    /\ RedisGet(rate_limit, now, "u1") = MaxRequests
    /\ Admitted(published, "u1") = 1


\* C30: in the step in which a run of the video ready handler returns after
\* a fresh upload, the content-id cache holds the run's file id, written with
\* a TTL of 600 seconds.
C30_VideoCachedWithTtl ==
    [][\A i \in Invocations :
          (inv[i].pc = "store" /\ inv'[i].pc = "done")
             => /\ video_content'[inv[i].obj] = inv[i].fid
                /\ inv'[i].ttl = 600]_vars


\* ---- failures in the after list and unresolved names ----

\* some after-middleware called by the last dispatch returned a falsy value
AfterReturnedFalsy ==
    /\ lastOp = "dispatch"
    /\ \E i \in 1..Len(executed) :
          executed[i][1] = "after" /\ ~Truthy(middlewares[executed[i][2]])

\* C31: when an after-middleware returns a falsy value, dispatch raises
\* MiddlewareExecutionError(name, phase="after") naming that middleware and
\* calls no later after-middleware; the handler and every before-middleware
\* of the effective list have been called exactly once.
C31_FalsyAfterAborts ==
    AfterReturnedFalsy =>
        /\ err = "MiddlewareExecutionError_after"
        /\ executed[Len(executed)] = <<"after", errName>>
        /\ ~Truthy(middlewares[errName])
        /\ \A i \in 1..(Len(executed) - 1) :
              executed[i][1] = "handler" \/ Truthy(middlewares[executed[i][2]])
        /\ Ran("handler") = <<routes[env.type][env.version]>>
        /\ IsFirstOccurrenceList(Ran("before"), AllBefore)
        /\ \A i, j \in 1..Len(executed) :
              (i # j /\ executed[i][1] = executed[j][1]) => executed[i] # executed[j]

\* a falsy after-middleware ended a dispatch while a registered
\* after-middleware of the effective list was still to be called
C31_Witness ==
    /\ AfterReturnedFalsy
    /\ \E k \in 1..Len(AllAfter) :
          /\ middlewares[AllAfter[k]] # NoFunc
          /\ \A i \in 1..Len(executed) : executed[i] # <<"after", AllAfter[k]>>


\* the first position of the list whose name is unresolved or whose
\* middleware returns a falsy value; 0 when there is none
FirstStop(names) ==
    IF \E i \in 1..Len(names) : ~Truthy(middlewares[names[i]])
    THEN CHOOSE i \in 1..Len(names) :
            /\ ~Truthy(middlewares[names[i]])
            /\ \A j \in 1..(i - 1) : Truthy(middlewares[names[j]])
    ELSE 0

Calls(phase, names, k) == [i \in 1..k |-> <<phase, names[i]>>]

\* C32: a dispatch that reaches a name with no registered middleware raises
\* MiddlewareRegistrationError naming it. In the before list the calls made
\* are those of the names before it and the handler is not called; in the
\* after list the whole before list and the handler were called, then the
\* after names before it.
C32_UnresolvedName ==
    DispatchedRegistered =>
        LET B == Dedup(AllBefore)
            A == Dedup(AllAfter)
            kb == FirstStop(B)
            ka == FirstStop(A)
        IN /\ (kb # 0 /\ middlewares[B[kb]] = NoFunc) =>
                 /\ err = "MiddlewareRegistrationError"
                 /\ errName = B[kb]
                 /\ executed = Calls("before", B, kb - 1)
           /\ (kb = 0 /\ ka # 0 /\ middlewares[A[ka]] = NoFunc) =>
                 /\ err = "MiddlewareRegistrationError"
                 /\ errName = A[ka]
                 /\ executed = Calls("before", B, Len(B))
                                 \o <<<<"handler", routes[env.type][env.version]>>>>
                                 \o Calls("after", A, ka - 1)
           /\ err = "MiddlewareRegistrationError" =>
                 \/ kb # 0 /\ middlewares[B[kb]] = NoFunc
                 \/ kb = 0 /\ ka # 0 /\ middlewares[A[ka]] = NoFunc

\* an unresolved name of the after list was reached after the handler and an
\* after-middleware had been called
C32_Witness ==
    /\ DispatchedRegistered
    /\ err = "MiddlewareRegistrationError"
    /\ Ran("handler") # <<>>
    /\ Ran("after") # <<>>
    /\ middlewares[errName] = NoFunc


\* ---- the ready event and the bucket ----

\* C33: a command that missed the bucket publishes its ready event only when
\* its download and its upload completed, a command whose download or upload
\* failed publishes none, and the object a published ready event names is in
\* the bucket.
C33_ReadyAfterUpload ==
    \A i \in 1..Len(keyObs) :
        LET obs == keyObs[i]
        IN /\ (obs.downloaded /\ obs.ready # NoReady) => obs.uploaded
           /\ (obs.downloaded /\ ~obs.uploaded) => obs.ready = NoReady
           /\ obs.ready # NoReady =>
                 /\ obs.ready.object_name = hash_url(obs.kind, obs.url)
                 /\ \E o \in bucket : o.key = obs.ready.object_name

\* a command failed and published nothing, and the next command for the same
\* object downloaded, uploaded and published the ready event
C33_Witness ==
    /\ Len(keyObs) = 2
    /\ keyObs[1].downloaded
    /\ keyObs[1].ready = NoReady
    /\ keyObs[2].key = keyObs[1].key
    /\ keyObs[2].uploaded
    /\ keyObs[2].ready.type = "events.dl.video.ready"
    /\ bucket = {[key |-> keyObs[2].key, puts |-> 1]}


\* ---- the optimistic reply record ----

\* the field holds the text of a number
HoldsNumber(value) == value \in {PyBytes(t) : t \in IntTexts}

\* C34: a call of optimistic_reply_cleanup for an id whose record lacks a
\* usable message_id or chat_id deletes no chat message and leaves the cache
\* as it was; a call that finds both deletes that one chat message and clears
\* both fields; a call that directly follows a deleting call for the same id
\* deletes nothing.
C34_CleanupIdempotent ==
    [][cleanObs'.turn # cleanObs.turn =>
          LET c == cleanObs'.cid
              r == reply_record[c]
          IN /\ IF HoldsNumber(r.message_id) /\ HoldsNumber(r.chat_id)
                THEN LET msg == <<PyInt(IntOf(r.chat_id.s)), PyInt(IntOf(r.message_id.s))>>
                     IN /\ cleanObs'.deleted = <<msg>>
                        /\ chat_log' = chat_log \ {msg}
                        /\ reply_record' = [reply_record EXCEPT ![c] = NoReplyRecord]
                ELSE /\ cleanObs'.deleted = <<>>
                     /\ chat_log' = chat_log
                     /\ reply_record' = reply_record
             /\ cleanObs'.again => cleanObs'.deleted = <<>>]_vars

\* the second of two calls in a row for an id whose reply the first call
\* deleted, while the reply of the other id is still in the chat
C34_Witness ==
    /\ cleanObs.fn = "cleanup"
    /\ cleanObs.again
    /\ cleanObs.deleted = <<>>
    /\ cleanObs.cid = 1
    /\ chat_log = {<<PyInt(5), PyInt(12)>>}
    /\ reply_record[2].message_id = PyBytes("12")


\* ---- the interest lock ----

\* run i is between its download and the storing of its content id
Building(i) == inv[i].pc \in {"download", "upload", "store"}

\* run i deletes the interest lock in this step
DeletesLock(i) ==
    /\ inv[i].pc \in {"cached_del_lock", "del_lock"}
    /\ inv'[i].pc = "return"

\* C35: a run of the audio ready handler whose NX set failed never deletes
\* the interest lock of its object while the run that holds it is building
\* the object.
C35_OnlyHolderDeletes ==
    [][\A i \in Invocations :
          (DeletesLock(i) /\ ~inv[i].acq)
             => ~(\E j \in Invocations \ {i} :
                      /\ ongoing_audio_content[inv[i].obj] = j
                      /\ inv[j].obj = inv[i].obj
                      /\ Building(j))]_vars


\* C36: once a run of the audio ready handler that took the interest lock
\* has finished, however it ended, the lock it took is no longer held.
C36_LockReleasedOnExit ==
    \A i \in Invocations :
        (inv[i].pc = "done" /\ inv[i].acq)
            => ongoing_audio_content[inv[i].obj] # i


\* ---- start_time ----

\* C37: no run of a ready handler finds the start_time of its correlation
\* id missing: float(start_time_raw) never raises.
C37_StartTimePresent ==
    \A i \in Invocations : inv[i].result # "TypeError"


\* ---- the optimistic reply and the delivery ----

\* C38: in the step in which the gateway delivers a freshly uploaded
\* artifact for a ready event, the optimistic reply of the event's
\* correlation id has been handled before (its message id is recorded), and
\* after the step no record of it remains.
C38_ReplyDeletedOnDelivery ==
    [][(\E o \in Objects : \/ video_content'[o] # video_content[o]
                           \/ audio_content'[o] # audio_content[o])
          => /\ Head(gateway_events).cid \in optimistic_reply
             /\ Head(gateway_events).cid \notin optimistic_reply']_vars


\* ---- worker replicas and the rate limit ----

\* C39: in one window the worker replicas together never publish more than
\* max_requests command events for one user.
C39_AdmittedWithinLimit ==
    \A u \in Users : admitted[u] <= MaxRequests


\* ---- the life of start_time ----

\* both queues are empty: every causal chain has finished
Quiescent == telegram_events = <<>> /\ gateway_events = <<>>

\* C40: once the causal chain of every message has finished, no start_time
\* field written by the ingress is left in the cache.
C40_StartTimeDeleted ==
    Quiescent => start_time = {}

====
